---- MODULE Spec2Model ----
(***************************************************************************)
(* NemID relying-party library: verifyAuthenticate (callback form of       *)
(* src/index.js, async form of src/unnamed/part_001), signParameters and   *)
(* normalizedParameters.                                                   *)
(*                                                                         *)
(* A JavaScript string is a sequence of UTF-16 code units; the strings     *)
(* drawn here are ASCII.  Texts that the program only stores and hands on  *)
(* (catalog causes and messages) are TLA+ strings, with line breaks        *)
(* folded and the Danish letters transliterated.                           *)
(***************************************************************************)
EXTENDS Integers, Sequences, FiniteSets, TLC

VARIABLES
  call,        \* verifyAuthenticate: the arguments of the call in progress
  verifying,   \* signedXml.Verify() has been called and has not answered
  verdict,     \* what the Signature Verifier answered
  ticks,       \* process.nextTick queue: pending invocations of cb
  cbCalls,     \* invocations of cb so far, in order
  thrown,      \* exception thrown synchronously out of the call
  promise,     \* async form: the returned promise
  uncaught,    \* exceptions that escaped a nextTick callback
  trace,       \* library stages entered by the call, in order
  parameters,  \* signParameters: the caller's parameter object
  given,       \* the caller's parameter object as it was when passed in
  signPc,      \* "ready", then the last call: "signParameters", "normalizedParameters"
  signImpl,    \* which implementation served the last call
  signResult,  \* value returned by the last signParameters call
  signTrace,   \* crypto operations of the last call, with their input
  normOut,     \* value returned by the last normalizedParameters call
  signCalls,   \* calls made on the parameter object so far
  matchSlots,  \* PIDCPRRequest.match: one call per caller, NoMatch before it
  matchInputs, \* the arguments the callers pass and the size of the responses
  contexts,    \* getNemIDAuthContext: the contexts created on the window, in order
  dispatched,  \* 'message' events the window has dispatched: their number, the last one
  instance,    \* the NemID instance: what its constructor stored
  catalog,     \* NemID.errors: the entries of the error catalog
  workload,    \* "all" or "few": how much of the input space the callers draw from
  released     \* calls that ended and whose results the caller has let go of

verifyVars == <<call, verifying, verdict, ticks, cbCalls, thrown, promise, uncaught, trace>>
signVars == <<parameters, given, signPc, signImpl, signResult, signTrace, normOut, signCalls>>
matchVars == <<matchSlots, matchInputs>>
ctxVars == <<contexts, dispatched>>
facadeVars == <<instance, catalog, workload, released>>
vars == <<verifyVars, signVars, matchVars, ctxVars, facadeVars>>

-----------------------------------------------------------------------------
(* Bounds *)

\* longest decoded response drawn (the length check is at MinLength)
MaxDocLen == 33
\* most X509Data elements in a drawn document
MaxX509 == 2
\* most certificates in a drawn document, over all of its X509Data elements
MaxCerts == 2
\* most keys of a drawn parameter object
MaxKeys == 2
\* most calls of signParameters / normalizedParameters on one object
MaxSignCalls == 2
\* authentication contexts created on one window, and 'message' events dispatched
MaxContexts == 2
MaxMessages == 2
\* calls of one instance whose results the caller lets go of, to call again
MaxReleases == 2

-----------------------------------------------------------------------------
(* JavaScript values and strings *)

Null == [kind |-> "null"]
Undefined == [kind |-> "undefined"]
False == [kind |-> "boolean", value |-> FALSE]

\* String.prototype.toLowerCase, on one code unit and on a string
LowerUnit(c) == IF c >= 65 /\ c <= 90 THEN c + 32 ELSE c
toLowerCase(s) == [i \in 1..Len(s) |-> LowerUnit(s[i])]

\* a < b for strings: lexicographic on code units, a proper prefix first
RECURSIVE StrLess(_, _)
StrLess(a, b) ==
  IF b = <<>> THEN FALSE
  ELSE IF a = <<>> THEN TRUE
  ELSE IF a[1] # b[1] THEN a[1] < b[1]
  ELSE StrLess(Tail(a), Tail(b))

\* the 'compare' package
compare(a, b) == IF a = b THEN 0 ELSE IF StrLess(b, a) THEN 1 ELSE -1

RECURSIVE Repeat(_, _)
Repeat(c, n) == IF n = 0 THEN <<>> ELSE <<c>> \o Repeat(c, n - 1)

-----------------------------------------------------------------------------
(* Base64: Buffer.from(s, 'base64').toString() *)

\* value of a base64 digit (the URL-safe digits included), -1 for any other unit
B64Value(c) ==
  IF c >= 65 /\ c <= 90 THEN c - 65
  ELSE IF c >= 97 /\ c <= 122 THEN c - 71
  ELSE IF c >= 48 /\ c <= 57 THEN c + 4
  ELSE IF c = 43 \/ c = 45 THEN 62
  ELSE IF c = 47 \/ c = 95 THEN 63
  ELSE -1

\* the digits of s before the first '=', units that are no digit skipped
RECURSIVE B64Digits(_)
B64Digits(s) ==
  IF s = <<>> \/ s[1] = 61 THEN <<>>
  ELSE IF B64Value(s[1]) < 0 THEN B64Digits(Tail(s))
  ELSE <<B64Value(s[1])>> \o B64Digits(Tail(s))

\* four digits give three bytes; a tail of two gives one, of three gives two
RECURSIVE B64Bytes(_)
B64Bytes(d) ==
  IF Len(d) < 2 THEN <<>>
  ELSE IF Len(d) = 2 THEN <<d[1] * 4 + d[2] \div 16>>
  ELSE IF Len(d) = 3
    THEN <<d[1] * 4 + d[2] \div 16, (d[2] % 16) * 16 + d[3] \div 4>>
  ELSE <<d[1] * 4 + d[2] \div 16, (d[2] % 16) * 16 + d[3] \div 4, (d[3] % 4) * 64 + d[4]>>
       \o B64Bytes(SubSeq(d, 5, Len(d)))

\* Buffer.toString(): UTF-8; a byte outside ASCII that starts no valid
\* sequence decodes to U+FFFD (only ASCII bytes are drawn)
Utf8ToString(bytes) == [i \in 1..Len(bytes) |-> IF bytes[i] < 128 THEN bytes[i] ELSE 65533]

Base64Decode(s) == Utf8ToString(B64Bytes(B64Digits(s)))

\* The applet's side: the base64 text of an ASCII string, padded with '='.
B64Digit(v) ==
  IF v < 26 THEN v + 65
  ELSE IF v < 52 THEN v + 71
  ELSE IF v < 62 THEN v - 4
  ELSE IF v = 62 THEN 43 ELSE 47

RECURSIVE Base64Encode(_)
Base64Encode(b) ==
  IF b = <<>> THEN <<>>
  ELSE IF Len(b) = 1
    THEN <<B64Digit(b[1] \div 4), B64Digit((b[1] % 4) * 16), 61, 61>>
  ELSE IF Len(b) = 2
    THEN <<B64Digit(b[1] \div 4), B64Digit((b[1] % 4) * 16 + b[2] \div 16),
           B64Digit((b[2] % 16) * 4), 61>>
  ELSE <<B64Digit(b[1] \div 4), B64Digit((b[1] % 4) * 16 + b[2] \div 16),
         B64Digit((b[2] % 16) * 4 + b[3] \div 64), B64Digit(b[3] % 64)>>
       \o Base64Encode(SubSeq(b, 4, Len(b)))

\* the same text without its padding, which the decoder accepts as well
Unpadded(s) == SelectSeq(s, LAMBDA c : c # 61)

-----------------------------------------------------------------------------
(* Error catalog: NemID.errors and NemID.errorsByCode *)

errors ==
  << [code |-> <<78, 79, 68, 69, 48, 48, 49>>, \* 'NODE001'
      cause |-> "The XMLSig response could not be parsed",
      message |-> [en |-> "A technical error has occurred. Please try again. Contact [Service Provider] if the problem persists.",
                   da |-> "Der er opstaaet en teknisk fejl. Forsoeg igen. Kontakt [Tjenesteudbyder], hvis problemet fortsaetter."]],
     [code |-> <<65, 80, 80, 48, 48, 49>>, \* 'APP001'
      cause |-> "Error while parsing the parameters by the NemID client library. Possible causes include: - The parameters are not structured correctly (must be valid JSON for the JS client). - A mandatory parameter is missing. - An unsupported parameter was submitted. - [JS Client: The ORIGIN parameter does not match the actual origin.] - An unsupported value was provided for an otherwise supported parameter. - The calculated digest does not match the value submitted in the PARAMS_DIGEST parameter.",
      message |-> [en |-> "A technical error has occurred. Please try again. Contact [Service Provider] if the problem persists.",
                   da |-> "Der er opstaaet en teknisk fejl. Forsoeg igen. Kontakt [Tjenesteudbyder], hvis problemet fortsaetter."]],
     [code |-> <<65, 80, 80, 48, 48, 50>>, \* 'APP002'
      cause |-> "The sign text was illegal, e.g. the HTML document contained illegal tags or the PDF document did not match its hash.",
      message |-> [en |-> "A technical error has occurred. Please try again. Contact [Service Provider] if the problem persists.",
                   da |-> "Der er opstaaet en teknisk fejl. Forsoeg igen. Kontakt [Tjenesteudbyder], hvis problemet fortsaetter."]],
     [code |-> <<65, 80, 80, 48, 48, 51>>, \* 'APP003'
      cause |-> "An unrecoverable, internal error occurred in the client. Stack traces from this kind of errors are automatically transmitted to Nets-DanID for analysis.",
      message |-> [en |-> "A technical error has occurred. Please contact NemID support [https://www.nemid.nu/dken/support/contact/].",
                   da |-> "Der er opstaaet en teknisk fejl. Kontakt NemID support [https://www.nemid.nu/dkda/support/faa_hjaelp_til_nemid/kontakt/]."]],
     [code |-> <<65, 80, 80, 48, 48, 52>>, \* 'APP004'
      cause |-> "Returned by the client if it is unable to resume an existing user session and the [JS Client: ALLOW_STEPUP parameter is not set to TRUE.] [Others: NO_FALLBACK parameter is set]",
      message |-> [en |-> "A technical error has occurred. Please try again. Contact [Service Provider] if the problem persists.",
                   da |-> "Der er opstaaet en teknisk fejl. Forsoeg igen. Kontakt [Tjenesteudbyder], hvis problemet fortsaetter."]],
     [code |-> <<65, 80, 80, 48, 48, 55>>, \* 'APP007'
      cause |-> "Returned by the client if a mandatory parameter is missing, if an unrecognized parameter has been received, [JS Client: or if the ORIGIN parameter does not match the actual origin.]",
      message |-> [en |-> "A technical error has occurred. Contact [Service Provider].",
                   da |-> "Der er opstaaet en teknisk fejl. Kontakt [Tjenesteudbyder]."]],
     [code |-> <<65, 80, 80, 48, 48, 56>>, \* 'APP008'
      cause |-> "Returned by the client if an invalid combination of parameters has been received. [JS Client: One example of an invalid combination would be if the client receives both CLIENTMODE=LIMITED and CREDENTIAL_UPDATE=ALIAS (since Limited mode does not support any of the administrative flows such as changing the user alias).]",
      message |-> [en |-> "A technical error has occurred. Contact [Service Provider].",
                   da |-> "Der er opstaaet en teknisk fejl. Kontakt [Tjenesteudbyder]"]],
     [code |-> <<65, 80, 80, 48, 48, 57>>, \* 'APP009'
      cause |-> "Invalid HSession.",
      message |-> [en |-> "A technical error has occurred. Please try again. Contact [Service Provider] if the problem persists.",
                   da |-> "Der er opstaaet en teknisk fejl. Forsoeg igen. Kontakt [Tjenesteudbyder], hvis problemet fortsaetter."]],
     [code |-> <<65, 80, 80, 48, 49, 48>>, \* 'APP010'
      cause |-> "The JavaScript Client could not start.",
      message |-> [en |-> "A technical error has occurred. Please try again.",
                   da |-> "Der er opstaaet en teknisk fejl. Forsoeg igen."]],
     [code |-> <<65, 85, 84, 72, 48, 48, 49>>, \* 'AUTH001'
      cause |-> "Number of allowed pin code attempts exceeded. The pin code has been revoked. The client has informed the user of this.",
      message |-> [en |-> "Your NemID is blocked. Please contact NemID support. [https://www.nemid.nu/dken/support/contact/]",
                   da |-> "Dit NemID er spaerret. Kontakt NemID support [https://www.nemid.nu/dkda/support/faa_hjaelp_til_ne mid/kontakt/]."]],
     [code |-> <<65, 85, 84, 72, 48, 48, 51>>, \* 'AUTH003'
      cause |-> "The user does not have an established agreement with the bank.",
      message |-> [en |-> "Login succeeded but you have no bank agreement. Please contact your bank for mere details",
                   da |-> "Login er gennemfoert korrekt, men du har ikke en bankaftale. Kontakt din bank for at hoere naermere."]],
     [code |-> <<65, 85, 84, 72, 48, 48, 52>>, \* 'AUTH004'
      cause |-> "The user's OTP device is currently quarantined, due to too many failed authentication attempts. This error code is returned if the user attempts to authenticate with an OTP device that has been quarantined during a previous session.",
      message |-> [en |-> "Your NemID is temporarily locked and you cannot log on until the 8 hour time lock has been lifted.",
                   da |-> "Dit NemID er midlertidigt laast i 8 timer og du kan ikke logge paa foer spaerringen er ophaevet."]],
     [code |-> <<65, 85, 84, 72, 48, 48, 53>>, \* 'AUTH005'
      cause |-> "The user's OTP device is locked permanently, due to too many failed password attempts. This error code is returned if the user attempts to authenticate with an OTP device that has been locked during a previous session.",
      message |-> [en |-> "Your NemID has been blocked. Please contact NemID support [https://www.nemid.nu/dken/support/contact/]",
                   da |-> "Dit NemID er spaerret. Kontakt NemID support [https://www.nemid.nu/dkda/support/faa_hjaelp_til_nemid/kontakt/]."]],
     [code |-> <<65, 85, 84, 72, 48, 48, 54>>, \* 'AUTH006'
      cause |-> "The user has run out of OTP codes and does not have a pending OTP card.",
      message |-> [en |-> "You have used all the codes on your code card. You can order a new code card on the Lost code card page [https://service.nemid.nu/dken/nemid/code_cards/lost_code _card/]",
                   da |-> "Du har brugt alle noegler paa noeglekortet. Du kan bestille et nyt paa siden Mistet noeglekort [https://service.nemid.nu/dk-da/nemid/noeglekort/mistet_noeglekort/]"]],
     [code |-> <<65, 85, 84, 72, 48, 48, 55>>, \* 'AUTH007'
      cause |-> "The user's OTP device password is revoked either because it was marked as compromised or because the user has made too many failed OTP attempts. This error code is returned if the user attempts to authenticate with an OTP device that has been revoked during a previous session.",
      message |-> [en |-> "Your NemID password is blocked due to too many failed password attempts. Please contact NemID support [https://www.nemid.nu/dken/support/contact/]",
                   da |-> "Din NemID-adgangskode er spaerret paa grund af for mange fejlede forsoeg. Kontakt NemID support [https://www.nemid.nu/dkda/support/faa_hjaelp_til_nemid/kontakt/]."]],
     [code |-> <<65, 85, 84, 72, 48, 48, 56>>, \* 'AUTH008'
      cause |-> "The user's OTP device is not activated and does not have an active pin code.",
      message |-> [en |-> "Your NemID is not active and you need support to issue a new activation password to activate. Please call NemID support [https://www.nemid.nu/dken/support/contact/]",
                   da |-> "Dit NemID er ikke aktivt og du skal bestille en ny midlertidig adgangskode til aktivering hos support. Ring til NemID support [https://www.nemid.nu/dkda/support/faa_hjaelp_til_nemid/kontakt/]."]],
     [code |-> <<65, 85, 84, 72, 48, 48, 57>>, \* 'AUTH009'
      cause |-> "The client was unable to resume the user's established session (either because the user logged in with only one factor, the session has timed out, or the session has been tampered with), and the single-sign-on attempt failed.",
      message |-> [en |-> "A technical error has occurred. Please try again.",
                   da |-> "Der er opstaaet en teknisk fejl. Forsoeg igen."]],
     [code |-> <<65, 85, 84, 72, 48, 49, 48>>, \* 'AUTH010'
      cause |-> "The user answered an OTP challenge that was not the latest issued. The user was probably trying to use the device in several sessions at once.",
      message |-> [en |-> "A technical error has occurred. Please try again, and ensure that only one NemID login is running.",
                   da |-> "Der er opstaaet en teknisk fejl. Tjek at kun et NemID login er aktivt og forsoeg igen."]],
     [code |-> <<65, 85, 84, 72, 48, 49, 49>>, \* 'AUTH011'
      cause |-> "The user authenticated using a PIN code on the mobile client.",
      message |-> [en |-> "NemID login on mobile does not support authentication using a temporary password. Please contact NemID support to have a new temporary password issued [https://www.nemid.nu/dken/support/contact/] Thereafter, please log on NemID at [url to Service Provider site containing client(s)]",
                   da |-> "NemID paa mobil understoetter ikke brug af midlertidig adgangskode. Kontakt NemID support for at faa en ny kode udstedt [https://www.nemid.nu/dkda/support/faa_hjaelp_til_nemid/kontakt/] Log derefter paa med NemID paa [url til Tjenesteudbyders side med klient(er)]"]],
     [code |-> <<65, 85, 84, 72, 48, 49, 50>>, \* 'AUTH012'
      cause |-> "The user tried to answer an expired OTP challenge.",
      message |-> [en |-> "A technical error has occurred. Please try again.",
                   da |-> "Der er opstaaet en teknisk fejl. Forsoeg igen."]],
     [code |-> <<65, 85, 84, 72, 48, 49, 51>>, \* 'AUTH013'
      cause |-> "Split 2-factor authentication is not possible",
      message |-> [en |-> "A technical error has occurred. Please try again.",
                   da |-> "Der er opstaaet en teknisk fejl. Forsoeg igen."]],
     [code |-> <<65, 85, 84, 72, 48, 49, 55>>, \* 'AUTH017'
      cause |-> "Environment error.",
      message |-> [en |-> "Something in the browser environment has caused NemID to stop working. This could be because of an incompatible plugin, too restrictive privacy settings or other environment factors. Please try deactivating plugins, resetting your browser settings or try using a different browser.",
                   da |-> "En teknisk fejl i browseren goer at NemID ikke kan starte. Forsoeg at slaa unoedige plug-ins fra, eller proev igen med en anden browser."]],
     [code |-> <<65, 85, 84, 72, 48, 49, 56>>, \* 'AUTH018'
      cause |-> "Code app is revoked, i.e. the user tried to approve in a code app that was revoked. This happen is a code app is revoked (for any reason) in the time from the code app is initiated and the user approved in the app.",
      message |-> [en |-> "Your code app is revoked. To use it again please reactivate it.",
                   da |-> "Din noegleapp er spaerret. For at bruge den igen skal den genaktiveres."]],
     [code |-> <<65, 85, 84, 72, 48, 49, 57>>, \* 'AUTH019'
      cause |-> "Prevent OTP card is activated and the user has no other active alternatives. I.e. the bank has enabled the prevent OTP card option, but the user has no alternative to the OTP card.",
      message |-> [en |-> "It is not possible to login with a code card, please use a code app or code token.",
                   da |-> "Det er ikke muligt at logge ind med noeglekort, brug anden loesning noegleapp eller noegleviser."]],
     [code |-> <<65, 85, 84, 72, 48, 50, 48>>, \* 'AUTH020'
      cause |-> "Number of allowed attempts exceeded for self-contained logins, use 2factor login.",
      message |-> [en |-> "Unable to login with 1-factor, please try with 2-factor login",
                   da |-> "Kunne ikke logge ind med 1-faktor, proev med 2-faktor login."]],
     [code |-> <<83, 82, 86, 48, 48, 49>>, \* 'SRV001'
      cause |-> "The signature on the client parameters could not be verified by DanID.",
      message |-> [en |-> "A technical error has occurred. Please try again.",
                   da |-> "Der er opstaaet en teknisk fejl. Forsoeg igen."]],
     [code |-> <<83, 82, 86, 48, 48, 50>>, \* 'SRV002'
      cause |-> "The authentication request could not be parsed by DanID",
      message |-> [en |-> "A technical error has occurred. Please try again.",
                   da |-> "Der er opstaaet en teknisk fejl. Forsoeg igen."]],
     [code |-> <<83, 82, 86, 48, 48, 51>>, \* 'SRV003'
      cause |-> "The time stamp of the authentication request was not within the allowed time span.",
      message |-> [en |-> "A technical error has occurred. Please try again.",
                   da |-> "Der er opstaaet en teknisk fejl. Forsoeg igen."]],
     [code |-> <<83, 82, 86, 48, 48, 52>>, \* 'SRV004'
      cause |-> "An unrecoverable, internal error occurred in the NemID servers.",
      message |-> [en |-> "A technical error has occurred. Please contact NemID support.",
                   da |-> "Der er opstaaet en teknisk fejl. Kontakt NemID support."]],
     [code |-> <<83, 82, 86, 48, 48, 53>>, \* 'SRV005'
      cause |-> "The service provider was not known by DanID.",
      message |-> [en |-> "A technical error has occurred. Please try again.",
                   da |-> "Der er opstaaet en teknisk fejl. Forsoeg igen."]],
     [code |-> <<83, 82, 86, 48, 48, 54>>, \* 'SRV006'
      cause |-> "The server lost the session it had established with the client. This may occur if the user leaves the client open for a prolonged stretch of time without interaction.",
      message |-> [en |-> "Time limit exceeded. Please try again.",
                   da |-> "Tidsgraense er overskredet. Forsoeg venligst igen."]],
     [code |-> <<83, 82, 86, 48, 48, 55>>, \* 'SRV007'
      cause |-> "The user is using an obsolete version of the CSP or the Mobile client",
      message |-> [en |-> "Please update to the most recent version.",
                   da |-> "Opdater venligst til nyeste version."]],
     [code |-> <<83, 82, 86, 48, 48, 56>>, \* 'SRV008'
      cause |-> "The server requires that identity protection be enabled in the SAML request.",
      message |-> [en |-> "A technical error has occurred.",
                   da |-> "Der er opstaaet en teknisk fejl."]],
     [code |-> <<83, 82, 86, 48, 49, 48>>, \* 'SRV010'
      cause |-> "The requested client is not available to the service provider.",
      message |-> [en |-> "A technical error has occurred. Please try again. Contact [Service Provider] if the problem persists.",
                   da |-> "Der er opstaaet en teknisk fejl. Forsoeg igen. Kontakt [Tjenesteudbyder], hvis problemet fortsaetter."]],
     [code |-> <<83, 82, 86, 48, 49, 49>>, \* 'SRV011'
      cause |-> "The transaction context was too long.",
      message |-> [en |-> "A technical error has occurred. Contact [Service Provider].",
                   da |-> "Der er opstaaet en teknisk fejl. Kontakt [Tjenesteudbyder]."]],
     [code |-> <<67, 65, 78, 48, 48, 49>>, \* 'CAN001'
      cause |-> "The user chose to cancel a flow that was started using a temporary password, e.g. an activation pin code. This error is not transmitted if the user navigates away from the page containing the client, e.g. by closing the browser window or clicking a link.",
      message |-> [en |-> "You have cancelled the activation of NemID after submitting the activation password. Your activation password is no longer valid, and you must request a new activation password before you can activate and use NemID.",
                   da |-> "Du har afbrudt aktiveringen efter du har brugt den midlertidige adgangskode. Din midlertidige adgangskode er ikke laengere gyldig, og du skal bestille en ny midlertidig adgangskode, foer du kan aktivere og bruge NemID."]],
     [code |-> <<67, 65, 78, 48, 48, 50>>, \* 'CAN002'
      cause |-> "The user chose to cancel the operation by pressing the cancel button. This error is not transmitted if the user navigates away from the page containing the client, e.g. by closing the browser window or clicking a link.",
      message |-> [en |-> "You have cancelled login.",
                   da |-> "Du har afbrudt login."]],
     [code |-> <<67, 65, 78, 48, 48, 51>>, \* 'CAN003'
      cause |-> "The client has timed out due to user inactivity, and the flow has been cancelled.",
      message |-> [en |-> "The connection to the application has timed out or has been interrupted by another app.",
                   da |-> "Forbindelsen til applikationen er timet ud eller er blevet afbrudt af en anden app."]],
     [code |-> <<67, 65, 78, 48, 48, 52>>, \* 'CAN004'
      cause |-> "The bank app has called logout during a flow.",
      message |-> [en |-> "The session is cancelled. Please try again",
                   da |-> "Sessionen er afbrudt. Forsoeg igen."]],
     [code |-> <<67, 65, 78, 48, 48, 53>>, \* 'CAN005'
      cause |-> "No response was received from the code app. This error is not transmitted if the user navigates away from the page containing the client, e.g. by closing the browser window or clicking a link",
      message |-> [en |-> "You took too long to authenticate the request you had sent to your code app.",
                   da |-> "Det tog for lang tid, foer du godkendte den anmodning, du havde sendt til din noegleapp"]],
     [code |-> <<67, 65, 78, 48, 48, 54>>, \* 'CAN006'
      cause |-> "Code app enrol flow cancelled due to max limit.",
      message |-> [en |-> "The maximum number of active code apps you can have at any time is ##MAXACTIVENMAS##. If you wish to activate another code app, you must first block one of your current code apps at nemid.nu or by contacting NemID Support or your bank.",
                   da |-> "Du kan hoejst have ##MAXACTIVENMAS## aktive noegleapps ad gangen. Hvis du vil aktivere en ny noegleapp, skal du foerst spaerre en af dine nuvaerende paa nemid.nu eller ved at kontakte NemID support eller din bank."]],
     [code |-> <<67, 65, 78, 48, 48, 55>>, \* 'CAN007'
      cause |-> "The user rejected the transaction in the code app.",
      message |-> [en |-> "You rejected your code app authentication request. If this was incorrect, you can submit a new request after clicking 'OK' to finish.",
                   da |-> "Du har afvist din anmodning om godkendelse i din noegleapp. Hvis det var en fejl, kan du sende en ny anmodning, naar du har afsluttet ved at klikke paa 'Ok'."]],
     [code |-> <<67, 65, 78, 48, 48, 56>>, \* 'CAN008'
      cause |-> "The transaction has been cancelled due to overwrite of the code app notification.",
      message |-> [en |-> "You sent a new authentication request to your code app overwriting an existing one.",
                   da |-> "Du har sendt en ny anmodning til godkendelse i din noegleapp, som overskriver en eksisterende."]],
     [code |-> <<79, 67, 69, 83, 48, 48, 49>>, \* 'OCES001'
      cause |-> "The user has opted out of OCES, but is trying to log in at a service provider that requires it.",
      message |-> [en |-> "You only have NemID for online banking. If you wish to use NemID for other public or private services, you must affiliate a public digital signature to your NemID.",
                   da |-> "Du har kun NemID til netbank. Oensker du at bruge NemID til andre hjemmesider, skal du tilknytte en offentlig digital signatur til dit NemID."]],
     [code |-> <<79, 67, 69, 83, 48, 48, 50>>, \* 'OCES002'
      cause |-> "The user was not OCES-qualified, but is trying to log in at a service provider that requires it.",
      message |-> [en |-> "If you wish to use NemID for other services than online banking, you have to affiliate public digital signature to your NemID.",
                   da |-> "Oensker du at bruge NemID til andet end netbank, skal du foerst tilknytte en offentlig digital signatur."]],
     [code |-> <<79, 67, 69, 83, 48, 48, 51>>, \* 'OCES003'
      cause |-> "The OTP device used to log in does not have OCES, but another OTP device belonging to the user does.",
      message |-> [en |-> "You have attempted to log on using a NemID with no public digital signature If you previously have logged on to our service using your NemID, the error can be due to having more than one NemID and having used a different NemID than normally.",
                   da |-> "Der er ikke tilknyttet en offentlig digital signatur til det NemID du har forsoegt at logge paa med. Hvis du tidligere har logget ind hos os med NemID, kan fejlen skyldes, at du har flere NemID, og har brugt et andet end normalt."]],
     [code |-> <<79, 67, 69, 83, 48, 48, 52>>, \* 'OCES004'
      cause |-> "The user is not OCES-qualified due to not having a CPR-number, being younger than 15 years of age or having the identity type bank employee.",
      message |-> [en |-> "You can only use this NemID for your online banking service.",
                   da |-> "Du kan kun bruge dette NemID til netbank."]],
     [code |-> <<79, 67, 69, 83, 48, 48, 53>>, \* 'OCES005'
      cause |-> "Returned in situations where a new certificate must be issued to complete the operation, but a technical error occurred while doing so.",
      message |-> [en |-> "Issuing your public digital signature failed. Please try again. If the problem persists contact NemID support",
                   da |-> "Udstedelsen af din offentlige digitale signatur mislykkedes. Forsoeg venligst igen. Hvis problemet fortsaetter, kontakt NemID support"]],
     [code |-> <<79, 67, 69, 83, 48, 48, 54>>, \* 'OCES006'
      cause |-> "The user has only inaccessible or inactive OCES on all of his OTP devices or no OCES at all.",
      message |-> [en |-> "You currently don't have an active public digital signature (OCES certificate) affiliated with your NemID. To get this, start the regular NemID order flow after witch you will be asked to affiliate a public digital signature with your current NemID.",
                   da |-> "Du har ikke en aktiv offentlig digital signatur tilknyttet NemID i oejeblikket. Ved bestilling af NemID vil du blive tilbudt at knytte en signatur til dit nuvaerende NemID."]] >>

\* 'NODE001'
NODE001 == <<78, 79, 68, 69, 48, 48, 49>>

Codes == {errors[i].code : i \in 1..Len(errors)}

\* errors.reduce((map, e) => map.set(e.code, e), new Map()): the last entry
\* set under a code is the one the map holds
HasCode(code) == \E i \in 1..Len(catalog) : catalog[i].code = code
EntryOf(code) ==
  catalog[CHOOSE i \in 1..Len(catalog) :
            /\ catalog[i].code = code
            /\ \A j \in (i + 1)..Len(catalog) : catalog[j].code # code]

\* NemID.errorsByCode.get(key)
errorsByCode(key) == IF HasCode(key) THEN EntryOf(key) ELSE Undefined


\* new NemIDError(error), callback form: Error(error.cause) sets message; the
\* constructor sets code and userMessage and no cause property
NemIDError(error) ==
  [kind |-> "NemIDError", code |-> error.code, message |-> error.cause,
   cause |-> Undefined, userMessage |-> error.message]

\* new NemIDError(error), async form (the class of './error')
NemIDErrorTs(error) ==
  [kind |-> "NemIDError", code |-> error.code, message |-> error.cause,
   cause |-> [kind |-> "string", text |-> error.cause, note |-> "", detail |-> Undefined],
   userMessage |-> error.message]

\* err.cause += note + detail
Annotate(err, note, detail) ==
  [err EXCEPT !.cause =
          [kind |-> "string", note |-> note, detail |-> detail,
           text |-> IF err.cause = Undefined THEN "undefined" ELSE err.cause.text]]

\* reading a property of undefined: NemID.errorByCode is not defined
\* (the map is NemID.errorsByCode), so NemID.errorByCode.get throws
TypeError == [kind |-> "TypeError", message |-> "Cannot read property 'get' of undefined"]

-----------------------------------------------------------------------------
(* What the XML libraries make of a decoded response.  The markup is not    *)
(* modelled unit by unit: a document is drawn with the answers xmldsigjs    *)
(* gives for it.                                                            *)

\* A certificate subject as X509Certificate.Subject prints it, in tokens:
\* "," is the separator ', ' between attributes and "=" the one inside one.
SubjectUser == <<"C", "=", "DK", ",", "O", "=", "Org", ",", "CN", "=", "Ann", ",",
                 "2.5.4.5", "=", "PID:1">>
SubjectCA == <<"C", "=", "DK", ",", "O", "=", "TRUST2408", ",", "CN", "=", "CA">>
SubjectNamed == <<"serialNumber", "=", "PID:2", ",", "CN", "=", "Bo">>
SubjectEq == <<"CN", "=", "a", "=", "b", ",", "2.5.4.5", "=", "PID:3", ",", "O", "=",
               "Foo", ",", "Inc">>
Subjects == {SubjectUser, SubjectCA, SubjectNamed, SubjectEq}

RECURSIVE SeqSum(_)
SeqSum(ns) == IF ns = <<>> THEN 0 ELSE ns[1] + SeqSum(Tail(ns))

SeqsUpTo(S, n) == UNION {[1..k -> S] : k \in 0..n}

\* certs cut into consecutive pieces of the lengths lens
RECURSIVE Chop(_, _)
Chop(certs, lens) ==
  IF lens = <<>> THEN <<>>
  ELSE <<SubSeq(certs, 1, lens[1])>>
       \o Chop(SubSeq(certs, lens[1] + 1, Len(certs)), Tail(lens))

\* the X509Data elements of a document, each with its certificates' subjects:
\* at most MaxX509 elements holding at most MaxCerts certificates together
X509Shapes ==
  UNION {{Chop(certs, lens) : certs \in [1..SeqSum(lens) -> Subjects]} :
         lens \in {l \in SeqsUpTo(0..MaxCerts, MaxX509) : SeqSum(l) <= MaxCerts}}

\* wellFormed: XmlDSigJs.Parse returns a document
\* signature:  "none" (no ds:Signature element), "malformed" (LoadXml rejects it), "ok"
XmlShapes ==
  {[wellFormed |-> FALSE, signature |-> "none", x509 |-> <<>>]}
  \cup [wellFormed : {TRUE}, signature : {"none", "malformed", "ok"}, x509 : X509Shapes]


-----------------------------------------------------------------------------
(* verifyAuthenticate *)

\* "An RSA signature is well beyond 32 bytes"
MinLength == 32

\* NemID.errorByCode: the callback form reads this property, which is never
\* assigned (the catalog map is NemID.errorsByCode)
errorByCode == Undefined

\* String.prototype.split on a token
RECURSIVE Split(_, _)
Split(s, sep) ==
  IF \A i \in 1..Len(s) : s[i] # sep THEN <<s>>
  ELSE LET i == CHOOSE j \in 1..Len(s) : s[j] = sep /\ \A l \in 1..(j - 1) : s[l] # sep
       IN <<SubSeq(s, 1, i - 1)>> \o Split(SubSeq(s, i + 1, Len(s)), sep)

Str(tokens) == [kind |-> "string", s |-> tokens]

\* var [k, v] = kv.split('='); if (k === '2.5.4.5') k = 'serialNumber'
AttrKey(kv) ==
  LET k == Split(kv, "=")[1] IN IF k = <<"2.5.4.5">> THEN <<"serialNumber">> ELSE k
AttrValue(kv) ==
  LET parts == Split(kv, "=") IN IF Len(parts) >= 2 THEN Str(parts[2]) ELSE Undefined

\* c.Subject.split(', ').reduce((o, kv) => { ...; o[k] = v; return o }, {}):
\* a later attribute of the same name overwrites an earlier one
ParseSubject(subject) ==
  LET kvs == Split(subject, ",")
      last(k) == CHOOSE i \in 1..Len(kvs) :
                   /\ AttrKey(kvs[i]) = k
                   /\ \A j \in (i + 1)..Len(kvs) : AttrKey(kvs[j]) # k
  IN [k \in {AttrKey(kvs[i]) : i \in 1..Len(kvs)} |-> AttrValue(kvs[last(k)])]

\* o.serialNumber
SerialNumber(o) == IF <<"serialNumber">> \in DOMAIN o THEN o[<<"serialNumber">>] ELSE Undefined

\* Array.from(x509).flatMap(c => KeyInfoX509Data.LoadXml(c).X509CertificateList)
RECURSIVE Flatten(_)
Flatten(xs) == IF xs = <<>> THEN <<>> ELSE xs[1] \o Flatten(Tail(xs))

\* Find taking the last subject with a serialNumber instead of the first
RECURSIVE FindLast(_)
FindLast(subjects) ==
  IF subjects = <<>> THEN Undefined
  ELSE IF SerialNumber(subjects[Len(subjects)]) # Undefined
    THEN [kind |-> "user", info |-> subjects[Len(subjects)]]
  ELSE FindLast(SubSeq(subjects, 1, Len(subjects) - 1))

\* subjects.find(c => c.serialNumber != null)
RECURSIVE Find(_)
Find(subjects) ==
  IF subjects = <<>> THEN Undefined
  ELSE IF SerialNumber(subjects[1]) # Undefined THEN [kind |-> "user", info |-> subjects[1]]
  ELSE Find(Tail(subjects))

\* the steps after a valid signature: the user, or false when there is none
ExtractUser(x509) ==
  LET certs == Flatten(x509)
      subjects == [i \in 1..Len(certs) |-> ParseSubject(certs[i])]
      user == Find(subjects)
  IN IF user = Undefined THEN False ELSE user

\* Answer without the isValid === false test
AnswerUnchecked(isValid, x509) == ExtractUser(x509)

\* what the call hands to its caller once the verifier answered isValid
Answer(isValid, x509) == IF isValid = FALSE THEN False ELSE ExtractUser(x509)

\* TryLoad that goes on without a Signature element
TryLoadUnsigned(xml) ==
  IF ~xml.wellFormed
    THEN [raised |-> TRUE, ex |-> [kind |-> "XmlError", message |-> "parse"],
          stages |-> <<"Parse">>]
  ELSE IF xml.signature = "malformed"
    THEN [raised |-> TRUE, ex |-> [kind |-> "XmlError", message |-> xml.signature],
          stages |-> <<"Parse", "LoadXml">>]
  ELSE [raised |-> FALSE, ex |-> Undefined, stages |-> <<"Parse", "LoadXml">>]

\* the try block: Parse, getElementsByTagNameNS, new SignedXml, LoadXml(signature[0]).
\* Parse raises on malformed XML; LoadXml raises when handed no element
\* (signature[0] is undefined) or an element it cannot read.
TryLoad(xml) ==
  IF ~xml.wellFormed
    THEN [raised |-> TRUE, ex |-> [kind |-> "XmlError", message |-> "parse"],
          stages |-> <<"Parse">>]
  ELSE IF xml.signature # "ok"
    THEN [raised |-> TRUE, ex |-> [kind |-> "XmlError", message |-> xml.signature],
          stages |-> <<"Parse", "LoadXml">>]
  ELSE [raised |-> FALSE, ex |-> Undefined, stages |-> <<"Parse", "LoadXml">>]

\* SyncJs with the length check ahead of the catalog lookup
SyncJsLengthFirst(nemIdResponse, xml) ==
  LET responseData == Base64Decode(nemIdResponse)
      error == errorsByCode(responseData)
  IN IF Len(responseData) < MinLength
       THEN [catalog |-> catalog, how |-> "throw", err |-> TypeError, stages |-> <<>>]
     ELSE IF error # Undefined
       THEN [catalog |-> catalog, how |-> "tick", err |-> NemIDError(error), stages |-> <<>>]
     ELSE [catalog |-> catalog, how |-> "throw", err |-> TypeError, stages |-> TryLoad(xml).stages]

\* The synchronous part of the callback form, up to its return or throw:
\* "tick" schedules cb(err) with process.nextTick, "throw" leaves the call by
\* an exception, "await" has called signedXml.Verify().  The catalog is
\* handed back as the call leaves it: err.cause += ... writes to the
\* NemIDError just created, no statement writes to an entry.
SyncJs(nemIdResponse, xml) ==
  LET responseData == Base64Decode(nemIdResponse)
      error == errorsByCode(responseData)
      loaded == TryLoad(xml)
  IN IF error # Undefined
       THEN [catalog |-> catalog, how |-> "tick", err |-> NemIDError(error), stages |-> <<>>]
     ELSE IF Len(responseData) < MinLength
       THEN IF errorByCode = Undefined
              THEN [catalog |-> catalog, how |-> "throw", err |-> TypeError, stages |-> <<>>]
              ELSE [catalog |-> catalog, how |-> "tick", stages |-> <<>>,
                    err |-> Annotate(NemIDError(errorsByCode(NODE001)), ". Input: ",
                                     Str(responseData))]
     ELSE IF loaded.raised
       THEN IF errorByCode = Undefined
              THEN [catalog |-> catalog, how |-> "throw", err |-> TypeError, stages |-> loaded.stages]
              ELSE [catalog |-> catalog, how |-> "tick", stages |-> loaded.stages,
                    err |-> Annotate(NemIDError(errorsByCode(NODE001)), ". Exception: ",
                                     loaded.ex)]
     ELSE [catalog |-> catalog, how |-> "await", err |-> Undefined, stages |-> loaded.stages \o <<"Verify">>]

\* SyncTs writing the annotation into the catalog entry of NODE001
SyncTsAnnotatingEntry(nemIdResponse, xml) ==
  LET responseData == Base64Decode(nemIdResponse)
      error == errorsByCode(responseData)
      loaded == TryLoad(xml)
      annotated == [i \in 1..Len(catalog) |->
                      IF catalog[i].code = NODE001
                        THEN [catalog[i] EXCEPT !.cause = "annotated"]
                        ELSE catalog[i]]
  IN IF error # Undefined
       THEN [catalog |-> catalog, how |-> "reject", err |-> NemIDErrorTs(error), stages |-> <<>>]
     ELSE IF Len(responseData) < MinLength
       THEN [catalog |-> annotated, how |-> "reject", stages |-> <<>>,
             err |-> Annotate(NemIDErrorTs(errorsByCode(NODE001)), ". Input: ",
                              Str(responseData))]
     ELSE IF loaded.raised
       THEN [catalog |-> annotated, how |-> "reject", stages |-> loaded.stages,
             err |-> Annotate(NemIDErrorTs(errorsByCode(NODE001)), ". Exception: ",
                              loaded.ex)]
     ELSE [catalog |-> catalog, how |-> "await", err |-> Undefined,
           stages |-> loaded.stages \o <<"Verify">>]

\* The async form up to its first await: a throw rejects the returned promise.
SyncTs(nemIdResponse, xml) ==
  LET responseData == Base64Decode(nemIdResponse)
      error == errorsByCode(responseData)
      loaded == TryLoad(xml)
  IN IF error # Undefined
       THEN [catalog |-> catalog, how |-> "reject", err |-> NemIDErrorTs(error), stages |-> <<>>]
     ELSE IF Len(responseData) < MinLength
       THEN [catalog |-> catalog, how |-> "reject", stages |-> <<>>,
             err |-> Annotate(NemIDErrorTs(errorsByCode(NODE001)), ". Input: ",
                              Str(responseData))]
     ELSE IF loaded.raised
       THEN [catalog |-> catalog, how |-> "reject", stages |-> loaded.stages,
             err |-> Annotate(NemIDErrorTs(errorsByCode(NODE001)), ". Exception: ",
                              loaded.ex)]
     ELSE [catalog |-> catalog, how |-> "await", err |-> Undefined, stages |-> loaded.stages \o <<"Verify">>]


\* HandOn wrapping the exception in the NODE001 error
HandOnWrapped(ex) == NemIDError(errorsByCode(NODE001))

\* .catch(ex => process.nextTick(cb, ex)) / the rejection of the awaited promise:
\* the exception is handed on as it is
HandOn(ex) == ex

\* Decoded responses the applet may send: every catalog code, near misses of
\* a code, short texts, and documents around the length check.
DocText(n) == <<60>> \o Repeat(120, n - 2) \o <<62>>
Texts ==
  Codes \cup {<<>>, <<120>>, toLowerCase(NODE001), NODE001 \o <<32>>}
        \cup {DocText(n) : n \in (MinLength - 1)..MaxDocLen}
        \cup {Repeat(120, MaxDocLen)}

\* only a text in angle brackets can be a well-formed document
ShapesOf(text) ==
  IF Len(text) >= 2 /\ text[1] = 60 /\ text[Len(text)] = 62
    THEN XmlShapes
    ELSE {s \in XmlShapes : ~s.wellFormed}

\* the few responses drawn when calls of several kinds interleave: the text
\* 'NODE001', a short text, a document of the least length, without certificates
FewTexts == {NODE001, <<120>>, DocText(MinLength)}
FewShapes(text) == {s \in ShapesOf(text) : s.x509 = <<>>}

\* exceptions the Signature Verifier may raise, and what cb may throw
VerifierFaults == {[kind |-> "Error", message |-> "verifier fault"],
                   [kind |-> "XmlError", message |-> "malformed signature"]}
CallbackFault == [kind |-> "Error", message |-> "thrown by cb"]

NoCall == [kind |-> "none"]
NoVerdict == [answer |-> "none", ex |-> Undefined]

VerifyIdle ==
  /\ call = NoCall
  /\ verifying = FALSE
  /\ verdict = NoVerdict
  /\ ticks = <<>>
  /\ cbCalls = <<>>
  /\ thrown = Null
  /\ promise = [state |-> "none", value |-> Undefined]
  /\ uncaught = <<>>
  /\ trace = <<>>

\* nemid.verifyAuthenticate(nemIdResponse, cb) / nemid.verifyAuthenticate(nemIdResponse),
\* to the point where the call returns, throws or suspends on Verify().
\* The arguments drawn are a string and a function: the type assertions pass.
verifyAuthenticate ==
  /\ call = NoCall
  /\ \E impl \in {"async", "callback"},
        text \in (IF workload = "all" THEN Texts ELSE FewTexts) :
       \E nemIdResponse \in {Base64Encode(text), Unpadded(Base64Encode(text))},
          xml \in (IF workload = "all" THEN ShapesOf(text) ELSE FewShapes(text)) :
         \E r \in {IF impl = "callback" THEN SyncJs(nemIdResponse, xml)
                                         ELSE SyncTs(nemIdResponse, xml)} :
            /\ call' = [impl |-> impl, nemIdResponse |-> nemIdResponse, xml |-> xml]
            /\ trace' = r.stages
            /\ verifying' = (r.how = "await")
            /\ ticks' = IF r.how = "tick" THEN <<[err |-> r.err, value |-> Undefined]>>
                                          ELSE <<>>
            /\ thrown' = IF r.how = "throw" THEN r.err ELSE Null
            /\ promise' = IF impl = "callback" THEN promise
                          ELSE IF r.how = "reject" THEN [state |-> "rejected", value |-> r.err]
                          ELSE [state |-> "pending", value |-> Undefined]
            /\ catalog' = r.catalog
  /\ UNCHANGED <<verdict, cbCalls, uncaught>>
  /\ UNCHANGED <<instance, workload, released>>
  /\ UNCHANGED <<signVars, matchVars, ctxVars>>

\* signedXml.Verify() answers: the .then / .catch handlers of the callback
\* form, the rest of the async function.  cb invoked from the .then handler
\* may throw, which lands in the .catch handler.
VerifierAnswers ==
  /\ verifying
  /\ \E answer \in {"valid", "invalid", "raise"}, ex \in VerifierFaults, cbThrows \in BOOLEAN :
       \E value \in {Answer(answer = "valid", call.xml.x509)} :
          /\ verdict' = [answer |-> answer, ex |-> IF answer = "raise" THEN ex ELSE Undefined]
          /\ trace' = IF answer = "valid" THEN Append(trace, "X509Data") ELSE trace
          /\ IF call.impl = "callback"
               THEN /\ cbCalls' = IF answer = "raise" THEN cbCalls
                                  ELSE Append(cbCalls, [err |-> Null, value |-> value])
                    /\ ticks' = IF answer = "raise"
                                  THEN Append(ticks, [err |-> HandOn(ex), value |-> Undefined])
                                ELSE IF cbThrows
                                  THEN Append(ticks, [err |-> HandOn(CallbackFault),
                                                      value |-> Undefined])
                                ELSE ticks
                    /\ UNCHANGED promise
               ELSE /\ promise' = IF answer = "raise"
                                    THEN [state |-> "rejected", value |-> HandOn(ex)]
                                    ELSE [state |-> "fulfilled", value |-> value]
                    /\ UNCHANGED <<cbCalls, ticks>>
  /\ verifying' = FALSE
  /\ UNCHANGED <<call, thrown, uncaught>>
  /\ UNCHANGED <<signVars, matchVars, ctxVars, facadeVars>>

\* a process.nextTick callback runs: cb(err); what cb throws there is uncaught
RunTick ==
  /\ ticks # <<>>
  /\ cbCalls' = Append(cbCalls, Head(ticks))
  /\ ticks' = Tail(ticks)
  /\ \E cbThrows \in BOOLEAN :
       uncaught' = IF cbThrows THEN Append(uncaught, CallbackFault) ELSE uncaught
  /\ UNCHANGED <<call, verifying, verdict, thrown, promise, trace>>
  /\ UNCHANGED <<signVars, matchVars, ctxVars, facadeVars>>

\* the key (a handle) and the certificate (DER bytes) handed to the constructor
ClientKey == -10
ClientCert == <<48, 3, 2, 1, 5>>
\* the service-provider id handed to the constructor, and PIDCPRRequest.TEST
Spid == <<52, 50>>
TEST == "pidws.pp.certifikat.dk"

\* The state right after new NemID({ spid, clientKey, clientCert, serverCA, env }):
\* the instance holds the key and the certificate, its PIDCPRRequest the
\* service-provider id and the host; the catalog is as the module defines it.
\* A PIDCPRRequest constructed on its own (src/pid-cpr-request.js does not
\* load src/index.js) holds the same four values, and there is no catalog.
Constructed(drawn, entries) ==
  /\ instance = [clientKey |-> ClientKey, clientCert |-> ClientCert,
                 spid |-> Spid, host |-> TEST]
  /\ catalog = entries
  /\ workload = drawn
  /\ released = 0

\* no context was created and the window dispatches no message
NoEvent == [kind |-> "none"]
ContextIdle ==
  /\ contexts = <<>>
  /\ dispatched = [count |-> 0, last |-> NoEvent]

\* no caller of match
MatchIdle ==
  /\ matchSlots = <<>>
  /\ matchInputs = [pids |-> {}, cprs |-> {}, nodes |-> 0, alphabet |-> {}, sizes |-> {},
                    statuses |-> {}, errors |-> {}]

SignIdle ==
  /\ parameters = <<>>
  /\ given = <<>>
  /\ signPc = "ready"
  /\ signImpl = "none"
  /\ signResult = Undefined
  /\ signTrace = <<>>
  /\ normOut = Undefined
  /\ signCalls = 0

InitVerify == VerifyIdle /\ SignIdle /\ MatchIdle /\ ContextIdle /\ Constructed("all", errors)
NextVerify == verifyAuthenticate \/ VerifierAnswers \/ RunTick
SpecVerify == InitVerify /\ [][NextVerify]_vars


-----------------------------------------------------------------------------
(* signParameters and normalizedParameters *)

\* A parameter object is the sequence of its [k, v] entries in insertion
\* order, which is the order of Object.keys for keys that are no array index.
Keys(obj) == [i \in 1..Len(obj) |-> obj[i].k]
HasKey(obj, k) == \E i \in 1..Len(obj) : obj[i].k = k
Get(obj, k) == obj[CHOOSE i \in 1..Len(obj) : obj[i].k = k].v

\* obj[k] = v, and { ...obj, k: v }: a present key keeps its place
Set(obj, k, v) ==
  IF HasKey(obj, k)
    THEN [i \in 1..Len(obj) |-> IF obj[i].k = k THEN [k |-> k, v |-> v] ELSE obj[i]]
    ELSE Append(obj, [k |-> k, v |-> v])

SP_CERT == <<83, 80, 95, 67, 69, 82, 84>>
PARAMS_DIGEST == <<80, 65, 82, 65, 77, 83, 95, 68, 73, 71, 69, 83, 84>>
DIGEST_SIGNATURE == <<68, 73, 71, 69, 83, 84, 95, 83, 73, 71, 78, 65, 84, 85, 82, 69>>
\* 'sp_cert', 'params_digest', 'digest_signature'
sp_cert == <<115, 112, 95, 99, 101, 114, 116>>
params_digest == <<112, 97, 114, 97, 109, 115, 95, 100, 105, 103, 101, 115, 116>>
digest_signature == <<100, 105, 103, 101, 115, 116, 95, 115, 105, 103, 110, 97, 116, 117, 114, 101>>

Includes(seq, x) == \E i \in 1..Len(seq) : seq[i] = x

\* Reserved looking for the three names as SP_CERT is written, not lower-cased
ReservedExact(obj) ==
  \/ Includes(Keys(obj), SP_CERT)
  \/ Includes(Keys(obj), PARAMS_DIGEST)
  \/ Includes(Keys(obj), DIGEST_SIGNATURE)

\* the three assertions: _keys.includes(name) === false
Reserved(obj) ==
  LET _keys == [i \in 1..Len(obj) |-> toLowerCase(Keys(obj)[i])]
  IN \/ Includes(_keys, sp_cert)
     \/ Includes(_keys, params_digest)
     \/ Includes(_keys, digest_signature)

AssertionError == [kind |-> "AssertionError", message |-> "Assertion failed"]

\* KeyCompare on the keys as spelled
KeyCompareRaw(a, b) == compare(a, b)

\* the comparator handed to sort
KeyCompare(a, b) == compare(toLowerCase(a), toLowerCase(b))

\* Array.prototype.sort with that comparator: stable, elements that compare
\* equal keep their order
RECURSIVE Insert(_, _)
Insert(x, sorted) ==
  IF sorted = <<>> THEN <<x>>
  ELSE IF KeyCompare(sorted[Len(sorted)], x) <= 0 THEN Append(sorted, x)
  ELSE Append(Insert(x, SubSeq(sorted, 1, Len(sorted) - 1)), sorted[Len(sorted)])

RECURSIVE Sort(_)
Sort(keys) ==
  IF keys = <<>> THEN <<>>
  ELSE Insert(keys[Len(keys)], Sort(SubSeq(keys, 1, Len(keys) - 1)))

\* keys.reduce((sum, key) => sum + key + parameters[key], '')
RECURSIVE Concat(_, _)
Concat(keys, obj) ==
  IF keys = <<>> THEN <<>>
  ELSE keys[1] \o Get(obj, keys[1]) \o Concat(Tail(keys), obj)

normalizedParameters(obj) == Concat(Sort(Keys(obj)), obj)

\* crypto.createHash('sha256').update(input).digest('base64') and
\* crypto.createSign('sha256').update(input).sign(privateKey, 'base64'):
\* the digest and the signature are not computed; each stands as a text that
\* names the operation (a unit below zero), the key and the input, so that
\* different inputs give different texts.
Sha256Base64(input) == <<-1>> \o input
SignBase64(privateKey, input) == <<-2, privateKey>> \o input

\* buf.toString('base64')
BufferToBase64(buf) == Base64Encode(buf)

\* signParameters signing the canonical string taken again after
\* PARAMS_DIGEST was written
SignJsDigestSigned(obj, privateKey, spCert) ==
  IF Reserved(obj)
    THEN [thrown |-> TRUE, err |-> AssertionError, object |-> obj, value |-> Undefined,
          ops |-> <<>>]
    ELSE LET withCert == Set(obj, SP_CERT, BufferToBase64(spCert))
             input == normalizedParameters(withCert)
             withDigest == Set(withCert, PARAMS_DIGEST, Sha256Base64(input))
             again == normalizedParameters(withDigest)
             signed == Set(withDigest, DIGEST_SIGNATURE, SignBase64(privateKey, again))
         IN [thrown |-> FALSE, err |-> Undefined, object |-> signed, value |-> signed,
             ops |-> <<[op |-> "sha256", input |-> input],
                       [op |-> "sign", input |-> again]>>]

\* signParameters of src/index.js: writes the three fields into the caller's
\* object and returns that object
SignJs(obj, privateKey, spCert) ==
  IF Reserved(obj)
    THEN [thrown |-> TRUE, err |-> AssertionError, object |-> obj, value |-> Undefined,
          ops |-> <<>>]
    ELSE LET withCert == Set(obj, SP_CERT, BufferToBase64(spCert))
             input == normalizedParameters(withCert)
             withDigest == Set(withCert, PARAMS_DIGEST, Sha256Base64(input))
             signed == Set(withDigest, DIGEST_SIGNATURE, SignBase64(privateKey, input))
         IN [thrown |-> FALSE, err |-> Undefined, object |-> signed, value |-> signed,
             ops |-> <<[op |-> "sha256", input |-> input],
                       [op |-> "sign", input |-> input]>>]

\* signParameters of the async build: works on copies and returns a new object
SignTs(obj, privateKey, spCert) ==
  IF Reserved(obj)
    THEN [thrown |-> TRUE, err |-> AssertionError, object |-> obj, value |-> Undefined,
          ops |-> <<>>]
    ELSE LET cert == BufferToBase64(spCert)
             input == normalizedParameters(Set(obj, SP_CERT, cert))
             signed == Set(Set(Set(obj, SP_CERT, cert),
                               PARAMS_DIGEST, Sha256Base64(input)),
                           DIGEST_SIGNATURE, SignBase64(privateKey, input))
         IN [thrown |-> FALSE, err |-> Undefined, object |-> obj, value |-> signed,
             ops |-> <<[op |-> "sha256", input |-> input],
                       [op |-> "sign", input |-> input]>>]

\* Parameter objects a caller may pass: keys that differ only in case, keys
\* that order differently with and without case, one a prefix of another,
\* and reserved names in several spellings.
ParamKeys ==
  { <<79, 82, 73, 71, 73, 78>>,        \* 'ORIGIN'
    <<111, 114, 105, 103, 105, 110>>,  \* 'origin'
    <<111, 114, 105, 103, 105, 110, 50>>,  \* 'origin2'
    <<66>>,                            \* 'B'
    <<97>>,                            \* 'a'
    <<83, 112, 95, 67, 101, 114, 116>>,  \* 'Sp_Cert'
    params_digest,
    DIGEST_SIGNATURE }
ParamValues == {<<120>>, <<121, 61>>}

Distinct(seq) == \A i, j \in 1..Len(seq) : i # j => seq[i] # seq[j]

ParamObjects ==
  UNION {{[i \in 1..n |-> [k |-> ks[i], v |-> vs[i]]] :
            ks \in {q \in [1..n -> ParamKeys] : Distinct(q)}, vs \in [1..n -> ParamValues]} :
         n \in 0..MaxKeys}

\* NemID.signParameters({ parameters, privateKey, spCert })
signParameters ==
  /\ signCalls < MaxSignCalls
  /\ \E impl \in {"async", "callback"} :
       \E r \in {IF impl = "callback" THEN SignJs(parameters, ClientKey, ClientCert)
                                       ELSE SignTs(parameters, ClientKey, ClientCert)} :
          /\ signImpl' = impl
          /\ given' = parameters
          /\ parameters' = r.object
          /\ signResult' = [thrown |-> r.thrown, err |-> r.err, value |-> r.value]
          /\ signTrace' = r.ops
  /\ signPc' = "signParameters"
  /\ signCalls' = signCalls + 1
  /\ UNCHANGED normOut
  /\ UNCHANGED <<verifyVars, matchVars, ctxVars, facadeVars>>

\* NemID.normalizedParameters(parameters), called on its own
normalizedParametersCall ==
  /\ signCalls < MaxSignCalls
  /\ given' = parameters
  /\ normOut' = normalizedParameters(parameters)
  /\ signPc' = "normalizedParameters"
  /\ signCalls' = signCalls + 1
  /\ UNCHANGED <<parameters, signImpl, signResult, signTrace>>
  /\ UNCHANGED <<verifyVars, matchVars, ctxVars, facadeVars>>

\* new Date().toISOString(): YYYY-MM-DDTHH:mm:ss.sssZ, every field padded
\* with zeros to its width
toISOString(date) ==
  LET pad(n, w) == [i \in 1..w |-> 48 + ((n \div (10 ^ (w - i))) % 10)]
  IN pad(date.year, 4) \o <<45>> \o pad(date.month, 2) \o <<45>> \o pad(date.day, 2)
     \o <<84>> \o pad(date.hours, 2) \o <<58>> \o pad(date.minutes, 2) \o <<58>>
     \o pad(date.seconds, 2) \o <<46>> \o pad(date.ms, 3) \o <<90>>

\* the parameters of authenticate with the origin under the key 'origin'
AuthParametersLowerOrigin(origin, now) ==
  LET iso == toISOString(now)
      cut == SubSeq(iso, 1, Len(iso) - 5)
      text == [i \in 1..Len(cut) |-> IF cut[i] = 84 THEN 32 ELSE cut[i]]
                \o <<43, 48, 48, 48, 48>>
  IN << [k |-> <<99, 108, 105, 101, 110, 116, 102, 108, 111, 119>>,
         v |-> <<79, 99, 101, 115, 76, 111, 103, 105, 110, 50>>],
        [k |-> <<99, 108, 105, 101, 110, 116, 109, 111, 100, 101>>,
         v |-> <<115, 116, 97, 110, 100, 97, 114, 100>>],
        [k |-> <<116, 105, 109, 101, 115, 116, 97, 109, 112>>,
         v |-> BufferToBase64(text)],
        [k |-> <<111, 114, 105, 103, 105, 110>>, v |-> origin] >>

\* const parameters = { clientflow: 'OcesLogin2', clientmode: 'standard',
\* timestamp: Buffer.from(<ISO time to the second, 'T' replaced by a space,
\* '+0000' appended>).toString('base64'), ORIGIN: origin }
AuthParameters(origin, now) ==
  LET iso == toISOString(now)
      cut == SubSeq(iso, 1, Len(iso) - 5)
      text == [i \in 1..Len(cut) |-> IF cut[i] = 84 THEN 32 ELSE cut[i]]
                \o <<43, 48, 48, 48, 48>>
  IN << [k |-> <<99, 108, 105, 101, 110, 116, 102, 108, 111, 119>>,
         v |-> <<79, 99, 101, 115, 76, 111, 103, 105, 110, 50>>],
        [k |-> <<99, 108, 105, 101, 110, 116, 109, 111, 100, 101>>,
         v |-> <<115, 116, 97, 110, 100, 97, 114, 100>>],
        [k |-> <<116, 105, 109, 101, 115, 116, 97, 109, 112>>,
         v |-> BufferToBase64(text)],
        [k |-> <<79, 82, 73, 71, 73, 78>>, v |-> origin] >>

\* origins a caller passes: web origins (one with a character beyond
\* ASCII), the empty string, and strings that spell a reserved name
Origins == {<<104, 116, 116, 112, 115, 58, 47, 47, 115, 112, 46, 101, 120, 97, 109, 112, 108, 101>>,
            <<104, 116, 116, 112, 58, 47, 47, 108, 111, 99, 97, 108, 104, 111, 115, 116>>,
            <<104, 116, 116, 112, 115, 58, 47, 47, 230, 46, 100, 107>>,
            <<>>, SP_CERT, params_digest, DIGEST_SIGNATURE}
\* instants the clock may show
Dates == {[year |-> 2020, month |-> 2, day |-> 29, hours |-> 23, minutes |-> 59,
           seconds |-> 59, ms |-> 999],
          [year |-> 1999, month |-> 12, day |-> 31, hours |-> 0, minutes |-> 0,
           seconds |-> 5, ms |-> 0],
          [year |-> 2021, month |-> 1, day |-> 1, hours |-> 0, minutes |-> 0,
           seconds |-> 0, ms |-> 0],
          [year |-> 2010, month |-> 10, day |-> 10, hours |-> 10, minutes |-> 10,
           seconds |-> 10, ms |-> 10]}

\* nemid.authenticate({ origin }): builds its own parameters object and
\* returns NemID.signParameters of it with the instance's key and certificate
authenticate ==
  /\ signCalls < MaxSignCalls
  /\ \E impl \in {"async", "callback"},
        origin \in (IF workload = "all" THEN Origins ELSE {<<>>}),
        now \in (IF workload = "all" THEN Dates
                                      ELSE {[year |-> 2020, month |-> 2, day |-> 29, hours |-> 23,
                                             minutes |-> 59, seconds |-> 59, ms |-> 999]}) :
       \E built \in {AuthParameters(origin, now)} :
         \E r \in {IF impl = "callback"
                     THEN SignJs(built, instance.clientKey, instance.clientCert)
                     ELSE SignTs(built, instance.clientKey, instance.clientCert)} :
            /\ signImpl' = impl
            /\ given' = <<[k |-> <<111, 114, 105, 103, 105, 110>>, v |-> origin]>>
            /\ signResult' = [thrown |-> r.thrown, err |-> r.err, value |-> r.value]
            /\ signTrace' = r.ops
  /\ signPc' = "authenticate"
  /\ signCalls' = signCalls + 1
  /\ UNCHANGED <<parameters, normOut>>
  /\ UNCHANGED <<verifyVars, matchVars, ctxVars, facadeVars>>

InitSign ==
  /\ VerifyIdle
  /\ MatchIdle
  /\ ContextIdle
  /\ Constructed("all", errors)
  /\ parameters \in ParamObjects
  /\ given = <<>>
  /\ signPc = "ready"
  /\ signImpl = "none"
  /\ signResult = Undefined
  /\ signTrace = <<>>
  /\ normOut = Undefined
  /\ signCalls = 0
NextSign == signParameters \/ normalizedParametersCall
SpecSign == InitSign /\ [][NextSign]_vars

\* an instance whose caller calls authenticate, MaxSignCalls times at most
InitAuthenticate ==
  /\ VerifyIdle
  /\ SignIdle
  /\ MatchIdle
  /\ ContextIdle
  /\ Constructed("all", errors)
SpecAuthenticate == InitAuthenticate /\ [][authenticate]_vars

-----------------------------------------------------------------------------
(* PIDCPRRequest.match *)

\* the length asserted of cpr, the number of random bytes of a request id,
\* the status that is read on, and the limit handed to concat
CprLength == 10
RidBytes == 16
StatusOk == 200
limit == 4096

\* most nodes (elements that carry an id, and child nodes) of a drawn response
MaxNodes == 3

\* callers of match at the same time
MaxCallers == 2

\* a string argument or result, an argument that is no string, and a boolean
StringOf(s) == [kind |-> "string", value |-> s]
Boolean(b) == [kind |-> "boolean", value |-> b]
NumberArg == [kind |-> "number", value |-> 0]
IsString(v) == v.kind = "string"

\* new Error(message), and the error nanoassert throws for assert(false, message)
Error(message) == [kind |-> "Error", message |-> message]
AssertionErrorOf(message) == [kind |-> "AssertionError", message |-> message]

\* the assertions on the types alone
PreconditionTypesOnly(pid, cpr) ==
  IF ~IsString(pid) THEN AssertionErrorOf("pid must be string")
  ELSE IF ~IsString(cpr) THEN AssertionErrorOf("cpr must be string")
  ELSE Null

\* the three assertions of match, in order: the first that fails, or Null
Precondition(pid, cpr) ==
  IF ~IsString(pid) THEN AssertionErrorOf("pid must be string")
  ELSE IF ~IsString(cpr) THEN AssertionErrorOf("cpr must be string")
  ELSE IF Len(cpr.value) # CprLength THEN AssertionErrorOf("cpr must be 10 digits")
  ELSE Null

\* the replace without the i flag
StripPidCaseSensitive(pid) ==
  IF Len(pid) >= 4 /\ SubSeq(pid, 1, 4) = <<80, 73, 68, 58>>
    THEN SubSeq(pid, 5, Len(pid))
    ELSE pid

\* pid.replace(/^PID:/i, ''): one match, anchored at the start, any case
StripPid(pid) ==
  IF Len(pid) >= 4 /\ toLowerCase(SubSeq(pid, 1, 4)) = <<112, 105, 100, 58>>
    THEN SubSeq(pid, 5, Len(pid))
    ELSE pid

\* buf.toString('hex')
HexDigit(v) == <<48, 49, 50, 51, 52, 53, 54, 55, 56, 57, 97, 98, 99, 100, 101, 102>>[v + 1]
RECURSIVE ToHex(_)
ToHex(bytes) ==
  IF bytes = <<>> THEN <<>>
  ELSE <<HexDigit(bytes[1] \div 16), HexDigit(bytes[1] % 16)>> \o ToHex(Tail(bytes))

\* crypto.randomBytes(16): the buffers drawn
RandomBytes == {[i \in 1..RidBytes |-> 0], [i \in 1..RidBytes |-> 171]}
Rids == {ToHex(b) : b \in RandomBytes}
\* an id of the right form that no call here generates
StaleRid == ToHex([i \in 1..RidBytes |-> 255])

\* _body(rid, spid, pid, cpr): the template literal
_body(rid, spid, pid, cpr) ==
  <<60, 63, 120, 109, 108, 32, 118, 101, 114, 115, 105, 111, 110, 61, 34, 49, 46, 48,
    34, 32, 101, 110, 99, 111, 100, 105, 110, 103, 61, 34, 105, 115, 111, 45, 56, 56,
    53, 57, 45, 49, 34, 63, 62, 60, 109, 101, 116, 104, 111, 100, 32, 110, 97, 109,
    101, 61, 34, 112, 105, 100, 67, 112, 114, 82, 101, 113, 117, 101, 115, 116, 34,
    32, 118, 101, 114, 115, 105, 111, 110, 61, 34, 49, 46, 48, 34, 62, 60, 114, 101,
    113, 117, 101, 115, 116, 32, 105, 100, 61, 34>>
  \o rid \o <<34, 62, 60, 115, 101, 114, 118, 105, 99, 101, 73, 100, 62>>
  \o spid \o <<60, 47, 115, 101, 114, 118, 105, 99, 101, 73, 100, 62, 60, 112, 105, 100, 62>>
  \o pid \o <<60, 47, 112, 105, 100, 62, 60, 99, 112, 114, 62>>
  \o cpr \o <<60, 47, 99, 112, 114, 62, 60, 47, 114, 101, 113, 117, 101, 115, 116, 62,
              60, 47, 109, 101, 116, 104, 111, 100, 62>>

\* the instance: new PIDCPRRequest(spid, key, cert), host defaulted to TEST

\* https.request(options, onResponse) followed by req.end(`PID_REQUEST=${body}`)
Post(body) ==
  [method |-> "POST", hostname |-> instance.host, path |-> "/pid_serviceprovider_server/pidxml/",
   contentType |-> "application/x-www-form-urlencoded",
   key |-> instance.clientKey, cert |-> instance.clientCert,
   written |-> <<80, 73, 68, 95, 82, 69, 81, 85, 69, 83, 84, 61>> \o body]

\* A response body as the libraries see it: its length in bytes, whether
\* xml.Parse returns a document for it or throws, and the nodes of that
\* document in document order.  A node is an element that carries an id
\* attribute, or a child node of the element before it: a text node, or an
\* element with or without a statusCode attribute.
IdNodes == {[node |-> "id", id |-> r] : r \in Rids \cup {StaleRid}}
ChildNodes ==
  {[node |-> "text"]} \cup
  {[node |-> "element", statusCode |-> a] : a \in {StringOf(<<48>>), StringOf(<<49>>), Null}}
Documents(most, alphabet) == UNION {[1..n -> alphabet] : n \in 0..most}
BodySizes == {limit - 1, limit, limit + 1}
Bodies(most, alphabet, sizes) ==
  {[bytes |-> b, parses |-> TRUE, nodes |-> d] : b \in sizes, d \in Documents(most, alphabet)}
  \cup {[bytes |-> b, parses |-> FALSE, nodes |-> <<>>] : b \in sizes}
NoBody == [kind |-> "none"]

\* concat({ limit }, cb): cb(err, res) with err set for a stream longer than
\* the limit and res what was buffered, cb(null, res) with the whole body otherwise
concat(opts, body) ==
  IF body.bytes > opts.limit
    THEN [err |-> Error("stream exceeded limit"), res |-> [body EXCEPT !.bytes = opts.limit]]
    ELSE [err |-> Null, res |-> body]

\* doc.getElementById(rid): position of the first element with that id, 0 for null
getElementById(nodes, rid) ==
  LET hits == {i \in 1..Len(nodes) : nodes[i].node = "id" /\ nodes[i].id = rid}
  IN IF hits = {} THEN 0 ELSE CHOOSE i \in hits : \A j \in hits : i <= j

\* the child nodes of the element at position p
RECURSIVE ChildrenFrom(_, _)
ChildrenFrom(nodes, p) ==
  IF p > Len(nodes) \/ nodes[p].node = "id" THEN <<>>
  ELSE <<nodes[p]>> \o ChildrenFrom(nodes, p + 1)
childNodes(nodes, p) == ChildrenFrom(nodes, p + 1)

\* result.firstChild (callback form): the first child node of any type, or Null
firstChild(children) == IF children = <<>> THEN Null ELSE children[1]

\* result.firstElementChild (async form): the first child that is an element, or Null
firstElementChild(children) ==
  LET elems == {i \in 1..Len(children) : children[i].node = "element"}
  IN IF elems = {} THEN Null ELSE children[CHOOSE i \in elems : \A j \in elems : i <= j]

\* reading getAttribute of null, and calling it on a text node
NullRead == [kind |-> "TypeError", message |-> "Cannot read property 'getAttribute' of null"]
NotAFunction == [kind |-> "TypeError", message |-> "getAttribute is not a function"]
\* what xml.Parse throws for a text it gives up on
ParseError == [kind |-> "ParseError", message |-> "invalid document"]

\* A call of match: its arguments, the exception it threw, the request ids
\* it generated, the requests it issued, where its exchange stands
\* ("none", "pending", "unread", "piping", "closed"), the status and body it
\* was answered with, the number of bodies parsed, the invocations of cb,
\* the promise, and the exceptions that left an event handler.
NoMatch == [kind |-> "none"]
NewMatch(impl, pid, cpr) ==
  [kind |-> "match", impl |-> impl, pid |-> pid, cpr |-> cpr, thrown |-> Null,
   rids |-> <<>>, posts |-> <<>>, net |-> "none", status |-> 0, body |-> NoBody,
   parsed |-> 0, cb |-> <<>>,
   promise |-> [state |-> IF impl = "async" THEN "pending" ELSE "none", value |-> Undefined],
   uncaught |-> <<>>]

\* cb(err) / reject(err), and cb(null, value) / resolve(value); settling a
\* settled promise does nothing
Reject(c, err) ==
  IF c.impl = "callback"
    THEN [c EXCEPT !.cb = Append(@, [err |-> err, value |-> Undefined])]
    ELSE [c EXCEPT !.promise = IF @.state = "pending"
                                 THEN [state |-> "rejected", value |-> err] ELSE @]
Resolve(c, value) ==
  IF c.impl = "callback"
    THEN [c EXCEPT !.cb = Append(@, [err |-> Null, value |-> value])]
    ELSE [c EXCEPT !.promise = IF @.state = "pending"
                                 THEN [state |-> "resolved", value |-> value] ELSE @]
\* an exception thrown inside an event handler reaches neither cb nor the promise
Escapes(c, err) == [c EXCEPT !.uncaught = Append(@, err)]

\* match(pid, cpr, cb) / match(pid, cpr), to the point where it returns: the
\* callback form throws a failed assertion, the async form rejects with it
Match(impl, pid, cpr, bytes) ==
  LET c == NewMatch(impl, pid, cpr)
      failed == Precondition(pid, cpr)
  IN IF failed # Null
       THEN IF impl = "callback" THEN [c EXCEPT !.thrown = failed] ELSE Reject(c, failed)
       ELSE LET rid == ToHex(bytes)
                body == _body(rid, instance.spid, StripPid(pid.value), cpr.value)
            IN [c EXCEPT !.rids = <<rid>>, !.posts = <<Post(body)>>, !.net = "pending"]

\* the 'response' handler reading on whatever the status
OnResponseAnyStatus(c, statusCode) == [c EXCEPT !.status = statusCode, !.net = "piping"]

\* the 'response' handler issuing the request again on a status that is not 200
OnResponseRetrying(c, statusCode) ==
  IF statusCode # StatusOk
    THEN [c EXCEPT !.status = statusCode, !.posts = Append(@, @[1]), !.net = "pending"]
    ELSE [c EXCEPT !.status = statusCode, !.net = "piping"]

\* function (res) { ... }: the 'response' handler
OnResponse(c, statusCode) ==
  IF statusCode # StatusOk
    THEN [Reject(c, Error("Unable to access PID/CPR service"))
            EXCEPT !.status = statusCode, !.net = "unread"]
    ELSE [c EXCEPT !.status = statusCode, !.net = "piping"]

\* what the callback of concat does with the document, for the element found
ReadStatus(c, children) ==
  LET child == IF c.impl = "callback" THEN firstChild(children)
                                      ELSE firstElementChild(children)
  IN IF child = Null THEN Escapes(c, NullRead)
     ELSE IF child.node # "element" THEN Escapes(c, NotAFunction)
     ELSE Resolve(c, Boolean(child.statusCode = StringOf(<<48>>)))

\* the callback of concat going on to parse what was buffered when err is set
OnConcatIgnoringErr(c, err, res) ==
  LET p == [c EXCEPT !.parsed = @ + 1]
      result == getElementById(res.nodes, c.rids[1])
  IN IF ~res.parses THEN Escapes(p, ParseError)
     ELSE IF result = 0 THEN Reject(p, Error("Invalid response from PID/CPR service"))
     ELSE ReadStatus(p, childNodes(res.nodes, result))

\* function (err, res) { ... }: the callback of concat
OnConcat(c, err, res) ==
  IF err # Null THEN Reject(c, err)
  ELSE IF ~res.parses THEN Escapes([c EXCEPT !.parsed = @ + 1], ParseError)
  ELSE LET p == [c EXCEPT !.parsed = @ + 1]
           result == getElementById(res.nodes, c.rids[1])
       IN IF result = 0 THEN Reject(p, Error("Invalid response from PID/CPR service"))
          ELSE ReadStatus(p, childNodes(res.nodes, result))

\* Arguments callers pass: a pid with the prefix in upper and in lower case,
\* without it, with it not at the start and with it twice; a cpr of ten
\* digits, of ten characters with a letter, shorter, longer and empty; and
\* arguments that are no strings.
Pids ==
  { StringOf(<<80, 73, 68, 58, 57, 50, 48, 56>>),      \* 'PID:9208'
    StringOf(<<112, 105, 100, 58, 57, 50, 48, 56>>),   \* 'pid:9208'
    StringOf(<<57, 50, 48, 56>>),                      \* '9208'
    StringOf(<<120, 80, 73, 68, 58, 57>>),             \* 'xPID:9'
    StringOf(<<80, 73, 68, 58, 80, 73, 68, 58, 57>>),  \* 'PID:PID:9'
    NumberArg }
Cprs ==
  { StringOf(<<48, 49, 48, 49, 55, 48, 49, 50, 51, 52>>),      \* '0101701234'
    StringOf(<<48, 49, 48, 49, 55, 111, 49, 50, 51, 52>>),     \* '01017o1234'
    StringOf(<<49, 50, 51, 52, 53>>),                          \* '12345'
    StringOf(<<48, 49, 48, 49, 55, 48, 49, 50, 51, 52, 53>>),  \* '01017012345'
    StringOf(<<>>),
    NumberArg }

\* statuses the service answers with, and errors the connection raises
Statuses == {StatusOk, 204, 500}
ConnectionErrors == {[kind |-> "Error", message |-> "connect ECONNREFUSED"],
                     [kind |-> "Error", message |-> "read ECONNRESET"]}

\* lookup.match(pid, cpr, cb) / lookup.match(pid, cpr)
match ==
  /\ \E i \in 1..Len(matchSlots) :
       /\ matchSlots[i] = NoMatch
       /\ \E impl \in {"async", "callback"}, pid \in matchInputs.pids,
             cpr \in matchInputs.cprs, bytes \in RandomBytes :
            matchSlots' = [matchSlots EXCEPT ![i] = Match(impl, pid, cpr, bytes)]
  /\ UNCHANGED matchInputs
  /\ UNCHANGED <<verifyVars, signVars, ctxVars, facadeVars>>

\* the 'response' event of the request
Response ==
  /\ \E i \in 1..Len(matchSlots) :
       /\ matchSlots[i] # NoMatch
       /\ matchSlots[i].net = "pending"
       /\ \E statusCode \in matchInputs.statuses :
            matchSlots' = [matchSlots EXCEPT ![i] = OnResponse(@, statusCode)]
  /\ UNCHANGED matchInputs
  /\ UNCHANGED <<verifyVars, signVars, ctxVars, facadeVars>>

\* BodyEnd looking up the request id of the call made last, as if the id
\* were kept on the instance
BodyEndSharedRid ==
  /\ \E i \in 1..Len(matchSlots) :
       /\ matchSlots[i] # NoMatch
       /\ matchSlots[i].net = "piping"
       /\ \E body \in Bodies(matchInputs.nodes, matchInputs.alphabet, matchInputs.sizes) :
            \E r \in {concat([limit |-> limit], body)} :
               LET made == {j \in 1..Len(matchSlots) :
                             matchSlots[j] # NoMatch /\ matchSlots[j].rids # <<>>}
                   last == CHOOSE j \in made : \A k \in made : k <= j
                   shared == [matchSlots[i] EXCEPT !.rids = matchSlots[last].rids]
               IN matchSlots' = [matchSlots EXCEPT ![i] =
                                   [OnConcat(shared, r.err, r.res)
                                      EXCEPT !.rids = matchSlots[i].rids,
                                             !.body = body, !.net = "closed"]]
  /\ UNCHANGED matchInputs
  /\ UNCHANGED <<verifyVars, signVars, ctxVars, facadeVars>>

\* the piped response ends, or runs over the limit: concat calls back
BodyEnd ==
  /\ \E i \in 1..Len(matchSlots) :
       /\ matchSlots[i] # NoMatch
       /\ matchSlots[i].net = "piping"
       /\ \E body \in Bodies(matchInputs.nodes, matchInputs.alphabet, matchInputs.sizes) :
            \E r \in {concat([limit |-> limit], body)} :
               matchSlots' = [matchSlots EXCEPT ![i] =
                                [OnConcat(@, r.err, r.res) EXCEPT !.body = body,
                                                                  !.net = "closed"]]
  /\ UNCHANGED matchInputs
  /\ UNCHANGED <<verifyVars, signVars, ctxVars, facadeVars>>

\* the 'error' event of the request: req.once('error', cb) / req.once('error', reject)
RequestError ==
  /\ \E i \in 1..Len(matchSlots) :
       /\ matchSlots[i] # NoMatch
       /\ matchSlots[i].net \in {"pending", "unread", "piping"}
       /\ \E err \in matchInputs.errors :
            matchSlots' = [matchSlots EXCEPT ![i] = [Reject(@, err) EXCEPT !.net = "closed"]]
  /\ UNCHANGED matchInputs
  /\ UNCHANGED <<verifyVars, signVars, ctxVars, facadeVars>>

\* the connection of a response that is not read ends without an error
SocketClose ==
  /\ \E i \in 1..Len(matchSlots) :
       /\ matchSlots[i] # NoMatch
       /\ matchSlots[i].net = "unread"
       /\ matchSlots' = [matchSlots EXCEPT ![i].net = "closed"]
  /\ UNCHANGED matchInputs
  /\ UNCHANGED <<verifyVars, signVars, ctxVars, facadeVars>>

\* one caller, one call
InitMatch ==
  /\ VerifyIdle
  /\ SignIdle
  /\ ContextIdle
  /\ Constructed("all", <<>>)
  /\ matchSlots = <<NoMatch>>
  /\ matchInputs = [pids |-> Pids, cprs |-> Cprs, nodes |-> MaxNodes,
                    alphabet |-> IdNodes \cup ChildNodes, sizes |-> BodySizes,
                    statuses |-> Statuses, errors |-> ConnectionErrors]
NextMatch == match \/ Response \/ BodyEnd \/ RequestError \/ SocketClose
SpecMatch == InitMatch /\ [][NextMatch]_vars

\* The caller's call is made.  Nothing in match schedules a later step of its
\* own: no timer is set on the request (no timeout option, no setTimeout),
\* and the 'response', body and 'error' events come from the network or not at all.
SpecMatchLive == InitMatch /\ [][NextMatch]_vars /\ WF_vars(match)

\* MaxCallers callers, each with one call in flight at a time, on one
\* instance: the events of their requests interleave in every order.  The
\* responses drawn are of two nodes at most, an element with the id one of
\* the calls may generate and a status element, answered with 200 or 500.
InitMatchConcurrent ==
  /\ VerifyIdle
  /\ SignIdle
  /\ ContextIdle
  /\ Constructed("all", <<>>)
  /\ matchSlots = [i \in 1..MaxCallers |-> NoMatch]
  /\ matchInputs = [pids |-> {StringOf(<<80, 73, 68, 58, 57, 50, 48, 56>>)},
                    cprs |-> {StringOf(<<48, 49, 48, 49, 55, 48, 49, 50, 51, 52>>),
                              StringOf(<<49, 50, 51, 52, 53>>)},
                    nodes |-> 2,
                    alphabet |-> {[node |-> "id", id |-> ToHex([i \in 1..RidBytes |-> 0])],
                                  [node |-> "element", statusCode |-> StringOf(<<48>>)]},
                    sizes |-> {limit},
                    statuses |-> {StatusOk, 500},
                    errors |-> {[kind |-> "Error", message |-> "read ECONNRESET"]}]
SpecMatchConcurrent == InitMatchConcurrent /\ [][NextMatch]_vars

-----------------------------------------------------------------------------
(* getNemIDAuthContext *)

\* prod === true ? 'https://applet.danid.dk' : 'https://appletk.danid.dk'
NEMID_ORIGIN(prod) ==
  IF prod = Boolean(TRUE) THEN "https://applet.danid.dk" ELSE "https://appletk.danid.dk"

\* JSON.stringify(value): a string that holds the value as JSON text
JSONstringify(value) == [kind |-> "string", json |-> value]

\* resolve and reject that overwrite an outcome already there
SettleAgain(c, state, value) ==
  [c EXCEPT !.done = [state |-> state, value |-> value],
            !.settles = Append(@, [state |-> state, value |-> value])]

\* doneResolve(value) / doneReject(value): resolve and reject of the promise
\* done, which do nothing once the promise is settled
Settle(c, state, value) ==
  [c EXCEPT !.done = IF @.state = "pending" THEN [state |-> state, value |-> value] ELSE @,
            !.settles = Append(@, [state |-> state, value |-> value])]

\* The context a call creates: the parameters and the origin its handler
\* closes over, its iframe element (its id, whether it is in the document),
\* whether handler is registered on the window, the promise done, the calls
\* of doneResolve and doneReject made, the messages posted to the iframe,
\* and the exceptions that left handler.
NewContext(params, prod, random) ==
  [parameters |-> params, origin |-> NEMID_ORIGIN(prod),
   id |-> <<"nemid-", random>>, attached |-> FALSE, listening |-> TRUE,
   done |-> [state |-> "pending", value |-> Undefined], settles |-> <<>>,
   posted |-> <<>>, uncaught |-> <<>>]

\* element.contentWindow: the window of the iframe once it is in the
\* document, null before
contentWindow(c, i) == IF c.attached THEN [window |-> i] ELSE Null

\* What 'message' events carry as data, with what JSON.parse makes of it:
\* a text that is no JSON, the JSON text null, an object with the command
\* 'SendParameters', and one with 'changeResponseAndSubmit' and a content.
Datas ==
  {[valid |-> FALSE, text |-> "<html>", value |-> Undefined],
   [valid |-> TRUE, text |-> "null", value |-> Null],
   [valid |-> TRUE, text |-> "{command}",
    value |-> [kind |-> "object", command |-> "SendParameters", content |-> Undefined]],
   [valid |-> TRUE, text |-> "{command,content}",
    value |-> [kind |-> "object", command |-> "changeResponseAndSubmit",
               content |-> [kind |-> "string", json |-> "response"]]]}

\* handler without the test of the origin
handlerAnyOrigin(c, i, ev) ==
  IF ev.source # contentWindow(c, i) THEN c
  ELSE IF ~ev.data.valid
    THEN Settle(c, "rejected", Error(<<"Unexpected data: ", ev.data.text>>))
  ELSE IF ev.data.value = Null
    THEN [c EXCEPT !.uncaught =
            Append(@, [kind |-> "TypeError", message |-> "Cannot destructure 'data' as it is null"])]
  ELSE IF ev.data.value.command = "SendParameters"
    THEN IF contentWindow(c, i) = Null
           THEN [c EXCEPT !.uncaught =
                   Append(@, [kind |-> "TypeError",
                              message |-> "Cannot read property 'postMessage' of null"])]
           ELSE [c EXCEPT !.posted =
                   Append(@, [message |-> JSONstringify([command |-> "parameters",
                                                         content |-> JSONstringify(c.parameters)]),
                              targetOrigin |-> c.origin])]
  ELSE IF ev.data.value.command = "changeResponseAndSubmit"
    THEN [Settle(c, "resolved", ev.data.value.content) EXCEPT !.listening = FALSE]
  ELSE c

\* handler without the test of the source
handlerAnySource(c, i, ev) ==
  IF ev.origin # c.origin THEN c
  ELSE IF ~ev.data.valid
    THEN Settle(c, "rejected", Error(<<"Unexpected data: ", ev.data.text>>))
  ELSE IF ev.data.value = Null
    THEN [c EXCEPT !.uncaught =
            Append(@, [kind |-> "TypeError", message |-> "Cannot destructure 'data' as it is null"])]
  ELSE IF ev.data.value.command = "SendParameters"
    THEN IF contentWindow(c, i) = Null
           THEN [c EXCEPT !.uncaught =
                   Append(@, [kind |-> "TypeError",
                              message |-> "Cannot read property 'postMessage' of null"])]
           ELSE [c EXCEPT !.posted =
                   Append(@, [message |-> JSONstringify([command |-> "parameters",
                                                         content |-> JSONstringify(c.parameters)]),
                              targetOrigin |-> c.origin])]
  ELSE IF ev.data.value.command = "changeResponseAndSubmit"
    THEN [Settle(c, "resolved", ev.data.value.content) EXCEPT !.listening = FALSE]
  ELSE c

\* function handler (ev): the context as the event leaves it
handler(c, i, ev) ==
  IF ev.origin # c.origin THEN c
  ELSE IF ev.source # contentWindow(c, i) THEN c
  ELSE IF ~ev.data.valid
    THEN Settle(c, "rejected", Error(<<"Unexpected data: ", ev.data.text>>))
  ELSE IF ev.data.value = Null
    THEN [c EXCEPT !.uncaught =
            Append(@, [kind |-> "TypeError", message |-> "Cannot destructure 'data' as it is null"])]
  ELSE IF ev.data.value.command = "SendParameters"
    THEN IF contentWindow(c, i) = Null
           THEN [c EXCEPT !.uncaught =
                   Append(@, [kind |-> "TypeError",
                              message |-> "Cannot read property 'postMessage' of null"])]
           ELSE [c EXCEPT !.posted =
                   Append(@, [message |-> JSONstringify([command |-> "parameters",
                                                         content |-> JSONstringify(c.parameters)]),
                              targetOrigin |-> c.origin])]
  ELSE IF ev.data.value.command = "changeResponseAndSubmit"
    THEN [Settle(c, "resolved", ev.data.value.content) EXCEPT !.listening = FALSE]
  ELSE c

\* arguments of getNemIDAuthContext: signed parameters, prod, Math.random()
ContextParameters == {<<[k |-> <<79, 82, 73, 71, 73, 78>>, v |-> <<120>>]>>}
Prods == {Boolean(TRUE), Undefined}
Randoms == {"0.4fvq"}

\* getNemIDAuthContext(parameters, prod)
getNemIDAuthContext ==
  /\ Len(contexts) < MaxContexts
  /\ \E params \in ContextParameters, prod \in Prods, random \in Randoms :
       contexts' = Append(contexts, NewContext(params, prod, random))
  /\ UNCHANGED dispatched
  /\ UNCHANGED <<verifyVars, signVars, matchVars, facadeVars>>

\* document.body.appendChild(context.element): the iframe gets its window
appendChild ==
  /\ \E i \in 1..Len(contexts) :
       /\ ~contexts[i].attached
       /\ contexts' = [contexts EXCEPT ![i].attached = TRUE]
  /\ UNCHANGED dispatched
  /\ UNCHANGED <<verifyVars, signVars, matchVars, facadeVars>>

\* The window dispatches a 'message' event: every handler registered runs,
\* in the order of registration.  The event comes from the applet origin of
\* production or of test or from another origin, and its source is the
\* window of one of the iframes, another window, or null.
Message ==
  /\ contexts # <<>>
  /\ dispatched.count < MaxMessages
  /\ \E origin \in {NEMID_ORIGIN(Boolean(TRUE)), NEMID_ORIGIN(Boolean(FALSE)),
                    "https://evil.example"},
        source \in {[window |-> i] : i \in {j \in 1..Len(contexts) : contexts[j].attached}}
                     \cup {[window |-> 0], Null},
        data \in Datas :
       \E ev \in {[kind |-> "message", origin |-> origin, source |-> source, data |-> data]} :
          /\ contexts' = [i \in 1..Len(contexts) |->
                            IF contexts[i].listening THEN handler(contexts[i], i, ev)
                                                     ELSE contexts[i]]
          /\ dispatched' = [count |-> dispatched.count + 1, last |-> ev]
  /\ UNCHANGED <<verifyVars, signVars, matchVars, facadeVars>>

\* the page of the browser: no NemID instance and no catalog are loaded there
InitContext ==
  /\ VerifyIdle
  /\ SignIdle
  /\ MatchIdle
  /\ ContextIdle
  /\ instance = [kind |-> "none"]
  /\ catalog = <<>>
  /\ workload = "all"
  /\ released = 0
NextContext == getNemIDAuthContext \/ appendChild \/ Message
SpecContext == InitContext /\ [][NextContext]_vars

-----------------------------------------------------------------------------
(* One instance serving calls of every kind *)

\* The caller lets go of a verifyAuthenticate call of which nothing is left
\* to run, and may call again.
ReleaseVerify ==
  /\ call # NoCall
  /\ ~verifying
  /\ ticks = <<>>
  /\ released < MaxReleases
  /\ released' = released + 1
  /\ call' = NoCall
  /\ verdict' = NoVerdict
  /\ cbCalls' = <<>>
  /\ thrown' = Null
  /\ promise' = [state |-> "none", value |-> Undefined]
  /\ uncaught' = <<>>
  /\ trace' = <<>>
  /\ UNCHANGED <<verifying, ticks>>
  /\ UNCHANGED <<instance, catalog, workload>>
  /\ UNCHANGED <<signVars, matchVars, ctxVars>>

\* The caller lets go of a match call whose exchange is over, or that never
\* issued a request, and may call again.
ReleaseMatch ==
  /\ released < MaxReleases
  /\ \E i \in 1..Len(matchSlots) :
       /\ matchSlots[i] # NoMatch
       /\ matchSlots[i].net \in {"none", "closed"}
       /\ matchSlots' = [matchSlots EXCEPT ![i] = NoMatch]
  /\ released' = released + 1
  /\ UNCHANGED matchInputs
  /\ UNCHANGED <<instance, catalog, workload>>
  /\ UNCHANGED <<verifyVars, signVars, ctxVars>>

\* new NemID(...), then authenticate, verifyAuthenticate and matchCPR (which
\* hands its arguments to lookup.match) called in any order, a call of one
\* kind being made while calls of the other kinds are in progress
InitFacade ==
  /\ VerifyIdle
  /\ SignIdle
  /\ ContextIdle
  /\ Constructed("few", errors)
  /\ matchSlots = <<NoMatch>>
  /\ matchInputs = [pids |-> {StringOf(<<80, 73, 68, 58, 57, 50, 48, 56>>)},
                    cprs |-> {StringOf(<<48, 49, 48, 49, 55, 48, 49, 50, 51, 52>>),
                              StringOf(<<49, 50, 51, 52, 53>>)},
                    nodes |-> 2,
                    alphabet |-> {[node |-> "id", id |-> ToHex([i \in 1..RidBytes |-> 0])],
                                  [node |-> "element", statusCode |-> StringOf(<<48>>)]},
                    sizes |-> {limit},
                    statuses |-> {StatusOk, 500},
                    errors |-> {[kind |-> "Error", message |-> "read ECONNRESET"]}]
NextFacade ==
  \/ verifyAuthenticate \/ VerifierAnswers \/ RunTick
  \/ authenticate
  \/ match \/ Response \/ BodyEnd \/ RequestError \/ SocketClose
  \/ ReleaseVerify \/ ReleaseMatch
SpecFacade == InitFacade /\ [][NextFacade]_vars

-----------------------------------------------------------------------------
(* Properties of verifyAuthenticate *)

InCall == call # NoCall
ResponseData == Base64Decode(call.nemIdResponse)

\* what the caller has been or is about to be handed, in order: the
\* invocations of cb made and those queued with process.nextTick
Deliveries == cbCalls \o ticks

\* the call's error outcome is e: cb(e) alone, or the promise rejected with e
FailsWith(e) ==
  IF call.impl = "callback"
    THEN thrown = Null /\ Deliveries = <<[err |-> e, value |-> Undefined]>>
    ELSE promise = [state |-> "rejected", value |-> e]

\* the call's result is v: cb(null, v) first, or the promise fulfilled with v
Returns(v) ==
  IF call.impl = "callback"
    THEN thrown = Null /\ cbCalls # <<>> /\ cbCalls[1] = [err |-> Null, value |-> v]
    ELSE promise = [state |-> "fulfilled", value |-> v]

\* every value the caller has been handed as a result
ResultsHanded ==
  {cbCalls[i].value : i \in {j \in 1..Len(cbCalls) : cbCalls[j].err = Null}}
  \cup (IF promise.state = "fulfilled" THEN {promise.value} ELSE {})

Entered(stage) == \E i \in 1..Len(trace) : trace[i] = stage

\* the error outcome is a NemIDError with this code
FailsWithCode(code) ==
  \E e \in {Deliveries[i].err : i \in 1..Len(Deliveries)} \cup {promise.value} :
    /\ e.kind = "NemIDError"
    /\ e.code = code
    /\ FailsWith(e)

\* C1: a UserInfo is handed out only after the verifier reported the signature
\* valid; when it reports invalid the result is false, neither an error nor a
\* UserInfo; no certificate subject is read before the verifier has answered.
C1_UserOnlyWhenValid ==
  /\ (\E v \in ResultsHanded : v.kind = "user") => verdict.answer = "valid"
  /\ verdict.answer = "invalid" => Returns(False)
  /\ Entered("X509Data") => verdict.answer # "none"

C1_Witness ==
  /\ InCall
  /\ verdict.answer = "invalid"
  /\ ExtractUser(call.xml.x509) # False
  /\ Returns(False)

\* C2: a response that decodes to exactly a catalog code fails with the
\* NemIDError of that entry (its code, its bilingual message), and neither
\* the XML parse nor the signature verification is entered.
C2_KnownCodeFails ==
  (InCall /\ ResponseData \in Codes) =>
    /\ \E i \in 1..Len(errors) :
         /\ errors[i].code = ResponseData
         /\ \E e \in {Deliveries[j].err : j \in 1..Len(Deliveries)} \cup {promise.value} :
              /\ FailsWith(e)
              /\ e.kind = "NemIDError"
              /\ e.code = errors[i].code
              /\ e.userMessage = errors[i].message
    /\ trace = <<>>
    /\ ~verifying
    /\ verdict = NoVerdict

C2_Witness ==
  /\ InCall
  /\ call.impl = "callback"
  /\ ResponseData = <<83, 82, 86, 48, 48, 52>>
  /\ Len(cbCalls) = 1
  /\ cbCalls[1].err.code = <<83, 82, 86, 48, 48, 52>>

\* C3: in both forms a response decoding to fewer than 32 characters that is
\* no catalog code yields a NemIDError NODE001 as the call's error outcome
\* (callback error / rejected promise), with no XML parse attempted.
C3_ShortFailsNODE001 ==
  (InCall /\ ResponseData \notin Codes /\ Len(ResponseData) < MinLength) =>
    /\ FailsWithCode(NODE001)
    /\ ~Entered("Parse")

\* C4 as stated: a well-formed document of at least 32 characters that is
\* unsigned, or whose signature is invalid, returns false and not an error.
C4_UnsignedOrInvalidReturnsFalse ==
  (/\ InCall
   /\ Len(ResponseData) >= MinLength
   /\ call.xml.wellFormed
   /\ call.xml.signature = "none" \/ verdict.answer = "invalid")
  => Returns(False)

\* C4 amended: such a document whose Signature element loads and whose
\* signature the verifier reports invalid returns false, not an error; an
\* unsigned one never returns false: the call fails before verification.
C4_InvalidReturnsFalse ==
  (InCall /\ Len(ResponseData) >= MinLength /\ call.xml.wellFormed) =>
    /\ verdict.answer = "invalid" => Returns(False)
    /\ call.xml.signature = "none" =>
         /\ ~Returns(False)
         /\ ResultsHanded = {}
         /\ ~Entered("Verify")
         /\ IF call.impl = "callback" THEN thrown # Null ELSE promise.state = "rejected"

C4_Witness ==
  /\ InCall
  /\ Len(ResponseData) >= MinLength
  /\ call.xml.wellFormed
  /\ call.xml.signature = "ok"
  /\ verdict.answer = "invalid"
  /\ Returns(False)

\* C5: for a response of at least 32 characters that is no catalog code, when
\* the parse or the loading of the Signature element raises, the call fails
\* with a NemIDError NODE001 as its error outcome and verification is never
\* started.
C5_ParseFailureIsNODE001 ==
  (/\ InCall
   /\ ResponseData \notin Codes
   /\ Len(ResponseData) >= MinLength
   /\ ~call.xml.wellFormed \/ call.xml.signature # "ok")
  => /\ FailsWithCode(NODE001)
     /\ ~Entered("Verify")

\* certificates of the document by position: X509Data element, place in it
CertPositions ==
  {p \in (1..Len(call.xml.x509)) \X (1..MaxCerts + 1) : p[2] <= Len(call.xml.x509[p[1]])}
PosBefore(p, q) == p[1] < q[1] \/ (p[1] = q[1] /\ p[2] < q[2])
SubjectAt(p) == ParseSubject(call.xml.x509[p[1]][p[2]])
HasSerial(p) == SerialNumber(SubjectAt(p)) \notin {Undefined, Null}

\* C6: after a valid signature the result is the parsed subject of the first
\* certificate, in document order over all X509Data elements, that has a
\* serialNumber; false when none has; every UserInfo handed out has one.
C6_FirstSubjectWithSerial ==
  /\ verdict.answer = "valid" =>
       IF \E p \in CertPositions : HasSerial(p)
         THEN \E p \in CertPositions :
                /\ HasSerial(p)
                /\ \A q \in CertPositions : PosBefore(q, p) => ~HasSerial(q)
                /\ Returns([kind |-> "user", info |-> SubjectAt(p)])
         ELSE Returns(False)
  /\ \A v \in ResultsHanded :
       v.kind = "user" => SerialNumber(v.info) \notin {Undefined, Null}

C6_Witness ==
  /\ InCall
  /\ verdict.answer = "valid"
  /\ call.xml.x509 = <<<<SubjectCA>>, <<SubjectUser>>>>
  /\ Returns([kind |-> "user", info |-> ParseSubject(SubjectUser)])
  /\ SerialNumber(ParseSubject(SubjectUser)) = Str(<<"PID:1">>)

-----------------------------------------------------------------------------
(* Properties of signParameters and normalizedParameters *)

ReservedNames == {sp_cert, params_digest, digest_signature}

\* C8: signParameters fails for every parameter map with a key whose
\* lower-cased form is sp_cert, params_digest or digest_signature, before
\* SP_CERT is added and before any digest or signature is computed: the
\* caller's map is left exactly as given.
C8_ReservedKeyFailsEarly ==
  (/\ signPc = "signParameters"
   /\ \E i \in 1..Len(given) : toLowerCase(given[i].k) \in ReservedNames)
  => /\ signResult.thrown
     /\ signResult.err = AssertionError
     /\ signTrace = <<>>
     /\ parameters = given

C8_Witness ==
  /\ signPc = "signParameters"
  /\ signImpl = "callback"
  /\ \E i \in 1..Len(given) : given[i].k = <<83, 112, 95, 67, 101, 114, 116>>
  /\ \A i \in 1..Len(given) : given[i].k \notin {SP_CERT, PARAMS_DIGEST, DIGEST_SIGNATURE}
  /\ signResult.thrown
  /\ parameters = given

\* the same keys and values in another insertion order
Reorderings(obj) ==
  {[i \in 1..Len(obj) |-> obj[f[i]]] :
     f \in {g \in [1..Len(obj) -> 1..Len(obj)] : Distinct(g)}}

\* C9: normalizedParameters does not depend on the insertion order of the
\* keys, keys that differ only in letter case included: every reordering of
\* the object gives the identical string.
C9_OrderIndependent ==
  signPc = "normalizedParameters" =>
    \A other \in Reorderings(given) : normalizedParameters(other) = normOut

\* place of entry i in the output: after every entry whose lower-cased key is
\* smaller, and after the earlier entries whose lower-cased key is equal
Place(obj, i) ==
  1 + Cardinality({j \in 1..Len(obj) :
                     \/ StrLess(toLowerCase(obj[j].k), toLowerCase(obj[i].k))
                     \/ /\ toLowerCase(obj[j].k) = toLowerCase(obj[i].k)
                        /\ j < i})
EntryAtPlace(obj, p) == obj[CHOOSE i \in 1..Len(obj) : Place(obj, i) = p]

RECURSIVE Joined(_, _)
Joined(obj, p) ==
  IF p > Len(obj) THEN <<>>
  ELSE EntryAtPlace(obj, p).k \o EntryAtPlace(obj, p).v \o Joined(obj, p + 1)

\* C10: the output is key followed by value, without separators, over the
\* keys ordered by their lower-cased form in code point order; every key
\* appears exactly once; keys equal after lower-casing keep insertion order.
C10_SortedConcatenation ==
  signPc = "normalizedParameters" =>
    /\ {Place(given, i) : i \in 1..Len(given)} = 1..Len(given)
    /\ normOut = Joined(given, 1)

C10_Witness ==
  /\ signPc = "normalizedParameters"
  /\ given = << [k |-> <<111, 114, 105, 103, 105, 110, 50>>, v |-> <<121, 61>>],
                [k |-> <<79, 82, 73, 71, 73, 78>>, v |-> <<120>>] >>
  /\ normOut = <<79, 82, 73, 71, 73, 78, 120, 111, 114, 105, 103, 105, 110, 50, 121, 61>>

\* the last call was signParameters and it returned
Signed == signPc = "signParameters" /\ ~signResult.thrown

\* C11: a successful signParameters returns a map with exactly the caller's
\* keys plus SP_CERT, PARAMS_DIGEST and DIGEST_SIGNATURE, every caller-supplied
\* value unchanged, and the object the caller passed in has the same keys and
\* values after the call as before it.
C11_ReturnsMapWithoutSideEffect ==
  Signed =>
    /\ {signResult.value[i].k : i \in 1..Len(signResult.value)}
         = {given[i].k : i \in 1..Len(given)} \cup {SP_CERT, PARAMS_DIGEST, DIGEST_SIGNATURE}
    /\ Distinct(Keys(signResult.value))
    /\ \A i \in 1..Len(given) : Get(signResult.value, given[i].k) = given[i].v
    /\ parameters = given

\* C12: two signParameters calls given the same parameters, key and
\* certificate both succeed and yield the same PARAMS_DIGEST; the second call
\* here is handed the very object that was handed to the first.
C12_SameDigestOnSecondCall ==
  [][(/\ Signed
      /\ signPc' = "signParameters"
      /\ signCalls' = signCalls + 1)
     => /\ ~signResult'.thrown
        /\ Get(signResult'.value, PARAMS_DIGEST) = Get(signResult.value, PARAMS_DIGEST)]_vars

-----------------------------------------------------------------------------
(* Properties of PIDCPRRequest.match *)

\* the calls made so far
Matches == {matchSlots[i] : i \in {j \in 1..Len(matchSlots) : matchSlots[j] # NoMatch}}

\* the call handed the caller true or false
GaveBoolean(c) ==
  IF c.impl = "callback" THEN \E k \in 1..Len(c.cb) : c.cb[k].err = Null
                         ELSE c.promise.state = "resolved"

\* the call was reported to the caller as failed, and with nothing else
ReportedFailed(c) ==
  IF c.impl = "callback"
    THEN c.cb # <<>> /\ \A k \in 1..Len(c.cb) : c.cb[k].err # Null
    ELSE c.promise.state = "rejected"

\* the call failed an assertion: thrown by the callback form, the rejection
\* of the async form
FailedPrecondition(c) ==
  IF c.impl = "callback"
    THEN c.thrown.kind = "AssertionError" /\ c.cb = <<>>
    ELSE c.promise.state = "rejected" /\ c.promise.value.kind = "AssertionError"

\* no request id was generated and no request was issued
NothingSent(c) == c.rids = <<>> /\ c.posts = <<>> /\ c.net = "none"

\* C13: match (matchCPR hands its arguments straight on) fails a precondition
\* check for every cpr whose length is not exactly 10, and then no request id
\* is generated and no network request is issued.
C13_WrongLengthFailsLocally ==
  \A c \in Matches :
    (IsString(c.cpr) /\ Len(c.cpr.value) # CprLength)
      => FailedPrecondition(c) /\ NothingSent(c)

C13_Witness ==
  \E c \in Matches :
    /\ c.impl = "callback"
    /\ c.cpr = StringOf(<<49, 50, 51, 52, 53>>)
    /\ c.thrown = AssertionErrorOf("cpr must be 10 digits")
    /\ NothingSent(c)

IsDigits(s) == \A i \in 1..Len(s) : s[i] \in 48..57

\* C14: for every cpr that is not a string of exactly ten decimal digits, a
\* 10-character string with a non-digit included, the call fails locally
\* before any network request is issued.
C14_NonDigitsFailLocally ==
  \A c \in Matches :
    ~(IsString(c.cpr) /\ Len(c.cpr.value) = CprLength /\ IsDigits(c.cpr.value))
      => FailedPrecondition(c) /\ NothingSent(c)

\* the ends of a string, the whole string and the empty one included
Suffixes(s) == {SubSeq(s, k, Len(s)) : k \in 1..(Len(s) + 1)}
\* 'PID:' in every mix of upper and lower case
PidPrefixes == {<<p, i, d, 58>> : p \in {80, 112}, i \in {73, 105}, d \in {68, 100}}

\* C15: the pid in the request envelope is the caller's pid with one leading
\* 'PID:' removed, in any letter case and only at the start; a pid without
\* the prefix is sent unchanged; the envelope carries the caller's cpr, the
\* configured serviceId and the call's request id as the id of the request
\* element.
C15_EnvelopeCarriesStrippedPid ==
  \A c \in Matches :
    c.posts # <<>> =>
      /\ Len(c.rids) = 1
      /\ \E sent \in Suffixes(c.pid.value) :
           /\ c.posts = <<Post(_body(c.rids[1], Spid, sent, c.cpr.value))>>
           /\ IF \E x \in PidPrefixes : Len(c.pid.value) >= 4 /\ SubSeq(c.pid.value, 1, 4) = x
                THEN Len(sent) = Len(c.pid.value) - 4
                ELSE sent = c.pid.value

C15_Witness ==
  \E c \in Matches :
    /\ c.pid = StringOf(<<112, 105, 100, 58, 57, 50, 48, 56>>)
    /\ c.posts # <<>>
    /\ c.posts[1].written =
         <<80, 73, 68, 95, 82, 69, 81, 85, 69, 83, 84, 61>>
           \o _body(c.rids[1], Spid, <<57, 50, 48, 56>>, c.cpr.value)

\* the body holds an element whose id is the request id of the call
Correlated(c) ==
  /\ c.body # NoBody
  /\ \E k \in 1..Len(c.body.nodes) :
       c.body.nodes[k].node = "id" /\ c.body.nodes[k].id = c.rids[1]

\* C16: a call produces a boolean only when the response body holds an
\* element whose id equals the request id generated for that call; for a 200
\* response with no such element the call fails with an error and never
\* returns true or false.
C16_BooleanOnlyWhenCorrelated ==
  \A c \in Matches :
    /\ GaveBoolean(c) => Correlated(c)
    /\ (c.status = StatusOk /\ c.body # NoBody /\ ~Correlated(c))
         => ReportedFailed(c) /\ ~GaveBoolean(c)

\* the child nodes of the first element whose id is the request id
CorrelatedChildren(c) ==
  LET nodes == c.body.nodes
      at == CHOOSE k \in 1..Len(nodes) :
              /\ nodes[k].node = "id" /\ nodes[k].id = c.rids[1]
              /\ \A j \in 1..(k - 1) : ~(nodes[j].node = "id" /\ nodes[j].id = c.rids[1])
      next == {j \in (at + 1)..Len(nodes) : nodes[j].node = "id"}
      end == IF next = {} THEN Len(nodes) ELSE (CHOOSE j \in next : \A i \in next : j <= i) - 1
  IN SubSeq(nodes, at + 1, end)

\* the one value handed to the caller is the boolean b
GaveExactly(c, b) ==
  IF c.impl = "callback" THEN c.cb = <<[err |-> Null, value |-> Boolean(b)]>>
                         ELSE c.promise = [state |-> "resolved", value |-> Boolean(b)]

\* the response was read to its end, within the limit, and parsed
ReadCorrelated(c) ==
  /\ c.status = StatusOk
  /\ c.body # NoBody
  /\ c.body.bytes <= limit
  /\ c.body.parses
  /\ Correlated(c)

\* C17: when the correlated element is found, match returns true exactly when
\* the statusCode attribute of that element's first child is "0"; for every
\* other value, and for a first child with no statusCode attribute, it
\* returns false; in neither case is a further request made.
C17_FirstChildStatusDecides ==
  \A c \in Matches :
    (ReadCorrelated(c) /\ CorrelatedChildren(c) # <<>>) =>
      LET first == CorrelatedChildren(c)[1]
      IN /\ GaveExactly(c, first.node = "element" /\ first.statusCode = StringOf(<<48>>))
         /\ Len(c.posts) = 1

\* C18: when the service answers with a status other than 200, match fails
\* with an error, the response body is never parsed and the call never
\* yields true or false.
C18_Non200Fails ==
  \A c \in Matches :
    (c.status # 0 /\ c.status # StatusOk) =>
      /\ ReportedFailed(c)
      /\ IF c.impl = "callback"
           THEN c.cb[1].err = Error("Unable to access PID/CPR service")
           ELSE c.promise.value = Error("Unable to access PID/CPR service")
      /\ c.parsed = 0
      /\ c.body = NoBody
      /\ ~GaveBoolean(c)

C18_Witness ==
  \E c \in Matches :
    /\ c.impl = "callback"
    /\ c.status = 500
    /\ c.net = "closed"
    /\ c.cb = <<[err |-> Error("Unable to access PID/CPR service"), value |-> Undefined]>>

\* C19: a 200 response whose body exceeds the 4096-byte cap is rejected:
\* match fails with an error, the truncated body is never parsed and no
\* boolean is produced from it.
C19_OversizedRejected ==
  \A c \in Matches :
    (c.status = StatusOk /\ c.body # NoBody /\ c.body.bytes > limit) =>
      /\ ReportedFailed(c)
      /\ c.parsed = 0
      /\ ~GaveBoolean(c)
      /\ c.uncaught = <<>>

C19_Witness ==
  \E c \in Matches :
    /\ c.status = StatusOk
    /\ c.body # NoBody
    /\ c.body.bytes = limit + 1
    /\ Correlated(c)
    /\ CorrelatedChildren(c) = <<[node |-> "element", statusCode |-> StringOf(<<48>>)]>>
    /\ c.impl = "async"
    /\ c.promise.state = "rejected"
    /\ c.parsed = 0

\* the service was not reached: the request raised an error before a response
Unreachable(c) == c.net = "closed" /\ c.status = 0 /\ c.posts # <<>>

\* C20: every transport failure of match is surfaced to the caller as a
\* failure of the call (callback error, rejected promise): the service is
\* unreachable, the status is not 200, the body is oversized, or a 200 body
\* is malformed, that is, it cannot be parsed as XML or its correlated
\* element has no child element to read statusCode from.
C20_TransportFailuresSurface ==
  \A c \in Matches :
    (\/ Unreachable(c)
     \/ c.status # 0 /\ c.status # StatusOk
     \/ c.status = StatusOk /\ c.body # NoBody /\ c.body.bytes > limit
     \/ c.status = StatusOk /\ c.body # NoBody /\ c.body.bytes <= limit /\ ~c.body.parses
     \/ /\ ReadCorrelated(c)
        /\ \A k \in 1..Len(CorrelatedChildren(c)) : CorrelatedChildren(c)[k].node # "element")
    => ReportedFailed(c)

\* the call reported an outcome to its caller: cb was invoked or the promise settled
Reported(c) ==
  IF c.impl = "callback" THEN c.cb # <<>> ELSE c.promise.state # "pending"

\* C21: each match call that passes its preconditions issues exactly one
\* HTTPS POST; after any outcome (boolean, error, non-200 status, oversized
\* or unparseable body) no second request is issued: nothing is retried.
C21_OnePostPerCall ==
  \A c \in Matches :
    Precondition(c.pid, c.cpr) = Null =>
      /\ Len(c.posts) = 1
      /\ c.posts[1].method = "POST"
      /\ Len(c.rids) = 1

C21_Witness ==
  \E c \in Matches :
    /\ Precondition(c.pid, c.cpr) = Null
    /\ c.net = "closed"
    /\ c.status = 500
    /\ Reported(c)
    /\ Len(c.posts) = 1

\* Every state a call can move to by an event of its own: the call being
\* made with its own arguments, and the 'response', body and 'error' events
\* of its own request handled against its own request id and caller.
OwnSteps(c) ==
  IF c = NoMatch
    THEN {Match(impl, pid, cpr, bytes) :
            impl \in {"async", "callback"}, pid \in matchInputs.pids,
            cpr \in matchInputs.cprs, bytes \in RandomBytes}
  ELSE IF c.net = "pending"
    THEN {OnResponse(c, statusCode) : statusCode \in matchInputs.statuses}
         \cup {[Reject(c, err) EXCEPT !.net = "closed"] : err \in matchInputs.errors}
  ELSE IF c.net = "unread"
    THEN {[c EXCEPT !.net = "closed"]}
         \cup {[Reject(c, err) EXCEPT !.net = "closed"] : err \in matchInputs.errors}
  ELSE IF c.net = "piping"
    THEN {[OnConcat(c, concat([limit |-> limit], body).err, concat([limit |-> limit], body).res)
             EXCEPT !.body = body, !.net = "closed"] :
            body \in Bodies(matchInputs.nodes, matchInputs.alphabet, matchInputs.sizes)}
         \cup {[Reject(c, err) EXCEPT !.net = "closed"] : err \in matchInputs.errors}
  ELSE {}

\* C22: concurrent match calls on one instance are independent under every
\* interleaving of their network events: a step changes one call only, what
\* that call becomes is decided by its own state, its own request id and its
\* own event, and so no response or error of one call reaches the callback
\* or promise of another.
C22_ConcurrentCallsIndependent ==
  [][\A i \in 1..Len(matchSlots) :
       matchSlots'[i] # matchSlots[i] =>
         /\ \A j \in 1..Len(matchSlots) : j # i => matchSlots'[j] = matchSlots[j]
         /\ matchSlots'[i] \in OwnSteps(matchSlots[i])
         /\ GaveBoolean(matchSlots'[i]) => Correlated(matchSlots'[i])]_vars

\* two calls with different request ids were both answered with the element
\* of the second one's id: the first failed, the second was handed true
C22_Witness ==
  /\ Len(matchSlots) >= 2
  /\ matchSlots[1] # NoMatch
  /\ matchSlots[2] # NoMatch
  /\ matchSlots[1].net = "closed"
  /\ matchSlots[2].net = "closed"
  /\ matchSlots[1].rids # matchSlots[2].rids
  /\ matchSlots[1].body = matchSlots[2].body
  /\ matchSlots[1].body # NoBody
  /\ Correlated(matchSlots[2])
  /\ GaveExactly(matchSlots[2], TRUE)
  /\ ReportedFailed(matchSlots[1])
  /\ ~GaveBoolean(matchSlots[1])

\* C23: every match call that passed its preconditions eventually reports
\* an outcome to its caller, a call whose response never arrives being ended
\* by a timeout that aborts the request and surfaces a timeout error.
C23_EveryCallReports ==
  (matchSlots[1] # NoMatch /\ matchSlots[1].net = "pending")
    ~> (matchSlots[1] # NoMatch /\ Reported(matchSlots[1]))

\* the string 'OcesLogin2', 'standard', and the keys authenticate sets itself
AuthKeys ==
  {<<99, 108, 105, 101, 110, 116, 102, 108, 111, 119>>,
   <<99, 108, 105, 101, 110, 116, 109, 111, 100, 101>>,
   <<116, 105, 109, 101, 115, 116, 97, 109, 112>>,
   <<79, 82, 73, 71, 73, 78>>}

\* C24: for every origin string authenticate succeeds, never tripping the
\* reserved-key check of signParameters, and returns a map with exactly the
\* seven keys clientflow, clientmode, timestamp, ORIGIN, SP_CERT,
\* PARAMS_DIGEST and DIGEST_SIGNATURE, with clientflow 'OcesLogin2',
\* clientmode 'standard' and ORIGIN the origin the caller passed.
C24_AuthenticateSevenKeys ==
  signPc = "authenticate" =>
    /\ ~signResult.thrown
    /\ Len(signResult.value) = 7
    /\ {signResult.value[i].k : i \in 1..Len(signResult.value)}
         = AuthKeys \cup {SP_CERT, PARAMS_DIGEST, DIGEST_SIGNATURE}
    /\ Get(signResult.value, <<99, 108, 105, 101, 110, 116, 102, 108, 111, 119>>)
         = <<79, 99, 101, 115, 76, 111, 103, 105, 110, 50>>
    /\ Get(signResult.value, <<99, 108, 105, 101, 110, 116, 109, 111, 100, 101>>)
         = <<115, 116, 97, 110, 100, 97, 114, 100>>
    /\ Get(signResult.value, <<79, 82, 73, 71, 73, 78>>) = given[1].v

\* authenticate returned for an origin that spells a reserved name
C24_Witness ==
  /\ signPc = "authenticate"
  /\ given[1].v = params_digest
  /\ ~signResult.thrown
  /\ Len(signResult.value) = 7
  /\ signImpl = "callback"

\* C28: in signParameters PARAMS_DIGEST and DIGEST_SIGNATURE are computed
\* over the same canonical string, the one built from exactly the caller's
\* keys plus SP_CERT: the keys PARAMS_DIGEST and DIGEST_SIGNATURE never
\* contribute to it, in either implementation.
C28_DigestAndSignatureOverSameString ==
  Signed =>
    LET input == normalizedParameters(Set(given, SP_CERT, BufferToBase64(ClientCert)))
    IN /\ signTrace = <<[op |-> "sha256", input |-> input], [op |-> "sign", input |-> input]>>
       /\ Get(signResult.value, PARAMS_DIGEST) = Sha256Base64(input)
       /\ Get(signResult.value, DIGEST_SIGNATURE) = SignBase64(ClientKey, input)

C28_Witness ==
  /\ Signed
  /\ signImpl = "async"
  /\ Len(given) = MaxKeys
  /\ signTrace[1].input = signTrace[2].input
  /\ signTrace[2].op = "sign"

\* C29: the callback form of verifyAuthenticate invokes cb exactly once per
\* call, and only after verifyAuthenticate has returned, for every input
\* string, every outcome of the verifier and whatever cb itself does: never
\* more than once, and once when nothing of the call is left to run.
C29_CallbackExactlyOnce ==
  IF call = NoCall THEN cbCalls = <<>>
  ELSE call.impl = "callback" =>
         /\ Len(cbCalls) <= 1
         /\ (~verifying /\ ticks = <<>>) => Len(cbCalls) = 1

\* C30: the callback form of match invokes cb at most once per call under
\* every ordering of the response, body-complete and request 'error' events,
\* a connection error after a reported non-200 status included, and the
\* promise form settles its promise at most once.
C30_MatchCallbackAtMostOnce ==
  \A c \in Matches :
    IF c.impl = "callback" THEN Len(c.cb) <= 1 ELSE c.cb = <<>>

\* the NemIDErrors the caller was handed as the error of a call
NemIDErrorsDelivered ==
  {e \in {cbCalls[i].err : i \in 1..Len(cbCalls)}
           \cup (IF promise.state = "rejected" THEN {promise.value} ELSE {}) :
     e.kind = "NemIDError"}

\* C26: every NemIDError delivered by verifyAuthenticate carries a code, a
\* cause and a bilingual userMessage with both en and da texts; for NODE001
\* the cause is the catalog cause of NODE001 followed by the annotation of
\* that call only (the offending input or the exception detail).  A response
\* that is the text 'NODE001' itself is answered from the catalog as it is.
C26_ErrorCarriesCodeCauseMessage ==
  \A e \in NemIDErrorsDelivered :
    /\ HasCode(e.code)
    /\ e.userMessage = EntryOf(e.code).message
    /\ DOMAIN e.userMessage = {"en", "da"}
    /\ e.cause # Undefined
    /\ e.cause.text = EntryOf(e.code).cause
    /\ IF e.code = NODE001 /\ ResponseData # NODE001
         THEN \/ e.cause.note = ". Input: " /\ e.cause.detail = Str(ResponseData)
              \/ e.cause.note = ". Exception: " /\ e.cause.detail # Undefined
         ELSE e.cause.note = "" /\ e.cause.detail = Undefined

\* C27: the promise done of an authentication context settles at most once.
\* Among the messages its handler accepts, the first that settles it decides:
\* done resolves with the content of a 'changeResponseAndSubmit' message, or
\* rejects for a message whose data is no valid JSON, and no later message
\* changes that outcome.
C27_DoneSettlesOnce ==
  \A i \in 1..Len(contexts) :
    LET c == contexts[i]
    IN /\ IF c.settles = <<>> THEN c.done.state = "pending" ELSE c.done = c.settles[1]
       /\ c.done.state = "rejected" => c.done.value.kind = "Error"
       /\ c.done.state = "resolved" =>
            \E d \in Datas : /\ d.valid
                             /\ d.value # Null
                             /\ d.value.command = "changeResponseAndSubmit"
                             /\ c.done.value = d.value.content

\* done was rejected for a message that is no JSON, and a
\* 'changeResponseAndSubmit' accepted after it left the outcome as it was
C27_Witness ==
  \E i \in 1..Len(contexts) :
    /\ Len(contexts[i].settles) = 2
    /\ contexts[i].settles[1].state = "rejected"
    /\ contexts[i].settles[2].state = "resolved"
    /\ contexts[i].done = contexts[i].settles[1]
    /\ contexts[i].attached

\* C25: no state is retained between calls.  After any sequence and
\* interleaving of authenticate, verifyAuthenticate and matchCPR calls,
\* succeeding or failing, the instance's key, certificate, service-provider
\* id and host and every entry of the error catalog (the cause text of
\* NODE001 included) are as they were right after construction, and what a
\* call hands over is made from those values and its own arguments alone:
\* the errors carry the texts of the catalog as constructed, the requests
\* and the signatures the key, certificate, id and host as constructed.
C25_NoStateRetained ==
  /\ instance = [clientKey |-> ClientKey, clientCert |-> ClientCert,
                 spid |-> Spid, host |-> TEST]
  /\ catalog = errors
  /\ \A e \in NemIDErrorsDelivered :
       \E k \in 1..Len(errors) : /\ errors[k].code = e.code
                                 /\ errors[k].cause = e.message
                                 /\ errors[k].message = e.userMessage
  /\ \A c \in Matches :
       c.posts # <<>> =>
         /\ c.posts[1].key = ClientKey
         /\ c.posts[1].cert = ClientCert
         /\ c.posts[1].hostname = TEST
         /\ c.posts[1].written
              = <<80, 73, 68, 95, 82, 69, 81, 85, 69, 83, 84, 61>>
                \o _body(c.rids[1], Spid, StripPid(c.pid.value), c.cpr.value)
  /\ signPc = "authenticate" =>
       /\ Get(signResult.value, SP_CERT) = BufferToBase64(ClientCert)
       /\ Get(signResult.value, DIGEST_SIGNATURE) = SignBase64(ClientKey, signTrace[2].input)

\* after a call was let go of: a verifyAuthenticate call rejected with
\* NODE001, while a match call waits for its response and authenticate has returned
C25_Witness ==
  /\ released >= 1
  /\ call # NoCall
  /\ call.impl = "async"
  /\ promise.state = "rejected"
  /\ promise.value.kind = "NemIDError"
  /\ promise.value.code = NODE001
  /\ promise.value.cause.note = ". Input: "
  /\ matchSlots[1] # NoMatch
  /\ matchSlots[1].net = "pending"
  /\ signPc = "authenticate"
  /\ catalog = errors

\* a step is the dispatch of a 'message' event, and the event passes both
\* tests of the handler of the context at position i
IsDispatch == dispatched'.count = dispatched.count + 1
PassesFilters(c, i, ev) == ev.origin = c.origin /\ ev.source = contentWindow(c, i)
IsCommand(ev, command) ==
  /\ ev.data.valid
  /\ ev.data.value # Null
  /\ ev.data.value.command = command

\* C31: a context posts the signed parameters only in reply to a
\* 'SendParameters' message whose origin is the applet origin selected and
\* whose source is the window of the context's own iframe, and posts them
\* to that origin; a message that fails either test leaves the context as
\* it was: nothing posted, done not settled, the listener not removed.
C31_PostsOnlyInReply ==
  [][\A i \in 1..Len(contexts) :
       LET c == contexts[i]
           d == contexts'[i]
           ev == dispatched'.last
       IN /\ d.posted # c.posted =>
               /\ IsDispatch
               /\ c.listening
               /\ c.attached
               /\ ev.origin = c.origin
               /\ ev.source = [window |-> i]
               /\ IsCommand(ev, "SendParameters")
               /\ c.origin \in {NEMID_ORIGIN(p) : p \in Prods}
               /\ d.posted =
                    Append(c.posted,
                           [message |-> JSONstringify([command |-> "parameters",
                                                       content |-> JSONstringify(c.parameters)]),
                            targetOrigin |-> c.origin])
          /\ (IsDispatch /\ ~PassesFilters(c, i, ev)) => d = c
          /\ ~IsDispatch =>
               /\ d.posted = c.posted
               /\ d.done = c.done
               /\ d.listening = c.listening]_vars

\* a context posted the parameters once, and a 'SendParameters' message that
\* came from its iframe under another origin after that left it as it was
C31_Witness ==
  \E i \in 1..Len(contexts) :
    /\ contexts[i].attached
    /\ contexts[i].listening
    /\ Len(contexts[i].posted) = 1
    /\ contexts[i].posted[1].targetOrigin = contexts[i].origin
    /\ contexts[i].done.state = "pending"
    /\ dispatched.count = 2
    /\ dispatched.last.source = [window |-> i]
    /\ dispatched.last.origin # contexts[i].origin
    /\ IsCommand(dispatched.last, "SendParameters")

\* C32: once done has settled, resolved or rejected, the handler of the
\* context is no longer registered on the window, and no message dispatched
\* after that, whatever its origin, makes the context post the parameters.
C32_SettledStopsListening ==
  [][\A i \in 1..Len(contexts) :
       contexts[i].done.state # "pending" =>
         /\ ~contexts[i].listening
         /\ contexts'[i].posted = contexts[i].posted]_vars

\* C33: with two (or more) contexts created on one window, a message whose
\* source is the window of one context's iframe affects that context alone,
\* in every interleaving of the messages of the iframes: every other
\* context is left as it was, its done neither resolved nor rejected and
\* nothing posted by it.
C33_MessageAffectsOwnContextOnly ==
  [][(IsDispatch /\ Len(contexts) >= 2) =>
       \A j \in 1..Len(contexts) :
         (contexts[j].attached /\ dispatched'.last.source = [window |-> j]) =>
           \A i \in 1..Len(contexts) \ {j} :
             /\ contexts'[i].done = contexts[i].done
             /\ contexts'[i].settles = contexts[i].settles
             /\ contexts'[i].posted = contexts[i].posted
             /\ contexts'[i] = contexts[i]]_vars

\* two contexts of one origin, both iframes in the document: a message from
\* the first iframe made the first context post, a message from the second
\* resolved the second, and neither did anything to the other
C33_Witness ==
  /\ Len(contexts) = 2
  /\ contexts[1].attached
  /\ contexts[2].attached
  /\ contexts[1].origin = contexts[2].origin
  /\ Len(contexts[1].posted) = 1
  /\ contexts[1].settles = <<>>
  /\ contexts[1].listening
  /\ contexts[2].posted = <<>>
  /\ contexts[2].done.state = "resolved"
  /\ Len(contexts[2].settles) = 1
  /\ dispatched.count = 2
  /\ dispatched.last.origin = contexts[1].origin
  /\ dispatched.last.source \in {[window |-> 1], [window |-> 2]}

====
